---- MODULE Spec2Model ----
(***************************************************************************)
(* Model of the OpenSync configuration synchronisation engine              *)
(* (backend/config_manager.py over the target catalogue of                 *)
(* backend/config_targets.py).                                             *)
(*                                                                         *)
(* Data representation                                                     *)
(*   - Optional[str] fields hold a string or None.                         *)
(*   - list[str] is a sequence of strings.                                 *)
(*   - env / headers (insertion-ordered dict[str, str]) are sequences of   *)
(*     <<key, value>> pairs with distinct keys, so iteration order is the  *)
(*     order of the sequence.                                              *)
(*   - A JSON value inside a file is tagged with its JSON type:            *)
(*       <<"str", s>>, <<"list", l>>, <<"map", pairs>>, <<"obj", f>>       *)
(*     where f is a function from the object's keys to JSON values.        *)
(*   - A path is [root, dir, stem, suffix]; the file name is stem \o       *)
(*     suffix and suffix is the last dotted extension (pathlib semantics). *)
(*   - The file system is a partial function from paths to file contents;  *)
(*     a path outside its domain does not exist.                           *)
(***************************************************************************)
EXTENDS Integers, Sequences, FiniteSets, TLC

\* ------------------------------------------------------------------ bounds
MaxClock == 1    \* seconds the wall clock may advance during a run
MaxFiles == 2    \* config files present when the run starts
MaxBatch == 2    \* longest target_names list handed to sync_servers
MaxDenied == 1   \* directories the process may not write into

\* ------------------------------------------------------- python primitives
None == "None"

Truthy(s) == s # None /\ s # ""

JStr(s) == <<"str", s>>
JList(l) == <<"list", l>>
JMap(p) == <<"map", p>>
JObj(f) == <<"obj", f>>

IsObj(v) == v[1] = "obj"

\* dict.get(key, default)
Get(d, k, default) == IF k \in DOMAIN d THEN d[k] ELSE default

EmptyDict == [k \in {} |-> None]

\* d[k] = v on a dict modelled as a function
Put(d, k, v) == [x \in (DOMAIN d) \cup {k} |-> IF x = k THEN v ELSE d[x]]

\* del d[k] / d.pop(k)
Del(d, k) == [x \in (DOMAIN d) \ {k} |-> d[x]]

Ok(v) == [ok |-> TRUE, val |-> v, exc |-> None]
Raise(e) == [ok |-> FALSE, val |-> None, exc |-> e]

\* ------------------------------------------------- config_targets.py: enums
\* class FormatType(str, Enum): member name -> value
FormatType ==
  [STANDARD |-> "standard", OPENCODE |-> "opencode", VSCODE |-> "vscode"]

\* class Scope(str, Enum)
Scope == [GLOBAL |-> "global", PROJECT |-> "project"]

\* Attribute access on an Enum class: the member's value, or AttributeError
\* when the class has no member of that name.
EnumAttr(enum, member) ==
  IF member \in DOMAIN enum THEN Ok(enum[member]) ELSE Raise("AttributeError")

\* ------------------------------------------------------------------- paths
Home == "/home/user"
Cwd == "."
ProjectDir == "/proj"

\* a config_path literal: "~/" prefix or not, directory part, stem, suffix
CfgPath(tilde, dir, stem, suffix) ==
  [tilde |-> tilde, dir |-> dir, stem |-> stem, suffix |-> suffix]

\* TargetConfig(...) with the fields the engine reads
TargetConfig(name, display_name, config_path, root_key, scope, format_type, nested) ==
  [name |-> name, display_name |-> display_name, config_path |-> config_path,
   root_key |-> root_key, scope |-> scope, format_type |-> format_type,
   nested |-> nested]

VsGlobalStorage == "Library/Application Support/Code/User/globalStorage"

GLOBAL_TARGETS == <<
  TargetConfig("claude_desktop_global", "Claude Desktop",
    CfgPath(TRUE, "Library/Application Support/Claude", "claude_desktop_config", ".json"),
    "mcpServers", Scope.GLOBAL, FormatType.STANDARD, FALSE),
  TargetConfig("claude_code_global", "Claude Code",
    CfgPath(TRUE, "", ".claude", ".json"),
    "mcpServers", Scope.GLOBAL, FormatType.STANDARD, FALSE),
  TargetConfig("antigravity_global", "Antigravity",
    CfgPath(TRUE, ".gemini/antigravity", "mcp_config", ".json"),
    "mcpServers", Scope.GLOBAL, FormatType.STANDARD, FALSE),
  TargetConfig("vscode_global", "VS Code",
    CfgPath(TRUE, "Library/Application Support/Code/User", "mcp", ".json"),
    "servers", Scope.GLOBAL, FormatType.VSCODE, FALSE),
  TargetConfig("cursor_global", "Cursor",
    CfgPath(TRUE, ".cursor", "mcp", ".json"),
    "mcpServers", Scope.GLOBAL, FormatType.STANDARD, FALSE),
  TargetConfig("gemini_cli_global", "Gemini CLI",
    CfgPath(TRUE, ".gemini", "settings", ".json"),
    "mcpServers", Scope.GLOBAL, FormatType.STANDARD, TRUE),
  TargetConfig("opencode_global", "OpenCode",
    CfgPath(TRUE, ".config/opencode", "opencode", ".json"),
    "mcp", Scope.GLOBAL, FormatType.OPENCODE, TRUE),
  TargetConfig("copilot_cli_global", "GitHub Copilot CLI",
    CfgPath(TRUE, ".copilot", "mcp-config", ".json"),
    "mcpServers", Scope.GLOBAL, FormatType.STANDARD, FALSE),
  TargetConfig("jetbrains_global", "JetBrains (Copilot)",
    CfgPath(TRUE, ".config/github-copilot/intellij", "mcp", ".json"),
    "mcpServers", Scope.GLOBAL, FormatType.STANDARD, FALSE),
  TargetConfig("cline_vscode_global", "Cline (VS Code)",
    CfgPath(TRUE, VsGlobalStorage \o "/saoudrizwan.claude-dev/settings",
            "cline_mcp_settings", ".json"),
    "mcpServers", Scope.GLOBAL, FormatType.STANDARD, FALSE),
  TargetConfig("roocode_vscode_global", "Roo Code (VS Code)",
    CfgPath(TRUE, VsGlobalStorage \o "/rooveterinaryinc.roo-cline/settings",
            "cline_mcp_settings", ".json"),
    "mcpServers", Scope.GLOBAL, FormatType.STANDARD, FALSE),
  TargetConfig("roocode_antigravity_global", "Roo Code (Antigravity)",
    CfgPath(TRUE, "Library/Application Support/Antigravity/User/globalStorage/rooveterinaryinc.roo-cline/settings",
            "cline_mcp_settings", ".json"),
    "mcpServers", Scope.GLOBAL, FormatType.STANDARD, FALSE),
  TargetConfig("kilocode_vscode_global", "Kilo Code (VS Code)",
    CfgPath(TRUE, VsGlobalStorage \o "/kilocode.kilo-code/settings",
            "cline_mcp_settings", ".json"),
    "mcpServers", Scope.GLOBAL, FormatType.STANDARD, FALSE) >>

PROJECT_TARGETS == <<
  TargetConfig("claude_code_project", "Claude Code",
    CfgPath(FALSE, "", ".mcp", ".json"),
    "mcpServers", Scope.PROJECT, FormatType.STANDARD, FALSE),
  TargetConfig("antigravity_project", "Antigravity",
    CfgPath(FALSE, ".antigravity", "mcp_config", ".json"),
    "mcpServers", Scope.PROJECT, FormatType.STANDARD, FALSE),
  TargetConfig("vscode_project", "VS Code",
    CfgPath(FALSE, ".vscode", "mcp", ".json"),
    "servers", Scope.PROJECT, FormatType.VSCODE, FALSE),
  TargetConfig("cursor_project", "Cursor",
    CfgPath(FALSE, ".cursor", "mcp", ".json"),
    "mcpServers", Scope.PROJECT, FormatType.STANDARD, FALSE),
  TargetConfig("gemini_cli_project", "Gemini CLI",
    CfgPath(FALSE, ".gemini", "settings", ".json"),
    "mcpServers", Scope.PROJECT, FormatType.STANDARD, TRUE),
  TargetConfig("opencode_project", "OpenCode",
    CfgPath(FALSE, "", "opencode", ".json"),
    "mcp", Scope.PROJECT, FormatType.OPENCODE, TRUE),
  TargetConfig("copilot_cli_project", "GitHub Copilot CLI",
    CfgPath(FALSE, ".copilot", "mcp-config", ".json"),
    "mcpServers", Scope.PROJECT, FormatType.STANDARD, FALSE),
  TargetConfig("roocode_vscode_project", "Roo Code (VS Code)",
    CfgPath(FALSE, ".roo", "mcp", ".json"),
    "mcpServers", Scope.PROJECT, FormatType.STANDARD, FALSE),
  TargetConfig("roocode_antigravity_project", "Roo Code (Antigravity)",
    CfgPath(FALSE, ".roo", "mcp", ".json"),
    "mcpServers", Scope.PROJECT, FormatType.STANDARD, FALSE),
  TargetConfig("kilocode_vscode_project", "Kilo Code (VS Code)",
    CfgPath(FALSE, ".kilocode", "mcp", ".json"),
    "mcpServers", Scope.PROJECT, FormatType.STANDARD, FALSE) >>

ALL_TARGETS == GLOBAL_TARGETS \o PROJECT_TARGETS

\* An Optional value that is not a string is <<>> for None and <<v>> for v.
Nothing == <<>>
Some(v) == <<v>>

\* next((t for t in ALL_TARGETS if t.name == name), None)
get_target(name) ==
  LET hits == SelectSeq(ALL_TARGETS, LAMBDA t : t.name = name)
  IN  IF hits = <<>> THEN Nothing ELSE Some(Head(hits))

\* [t for t in ALL_TARGETS if t.scope == scope]
get_targets_by_scope(scope) == SelectSeq(ALL_TARGETS, LAMBDA t : t.scope = scope)

\* os.path.expanduser(config_path): "~/" becomes the home directory, a
\* relative path stays relative to the working directory
resolved_path(target) ==
  [root |-> IF target.config_path.tilde THEN Home ELSE Cwd,
   dir |-> target.config_path.dir,
   stem |-> target.config_path.stem,
   suffix |-> target.config_path.suffix]

\* the join with the directory part of config_path dropped
resolve_for_project_flat(target, project_dir) ==
  IF target.scope = Scope.PROJECT
  THEN [root |-> project_dir,
        dir |-> "",
        stem |-> target.config_path.stem,
        suffix |-> target.config_path.suffix]
  ELSE resolved_path(target)

\* os.path.join(project_dir, config_path) for project targets
resolve_for_project(target, project_dir) ==
  IF target.scope = Scope.PROJECT
  THEN [root |-> project_dir,
        dir |-> target.config_path.dir,
        stem |-> target.config_path.stem,
        suffix |-> target.config_path.suffix]
  ELSE resolved_path(target)

_resolve_path(target, project_dir) ==
  IF target.scope = Scope.PROJECT /\ Truthy(project_dir)
  THEN resolve_for_project(target, project_dir)
  ELSE resolved_path(target)

\* pathlib.Path.with_suffix: the last extension is replaced
with_suffix(path, suffix) == [path EXCEPT !.suffix = suffix]

\* ---------------------------------------------------------- models.py
\* McpServer(name=..., command=..., ...); id defaults to None
McpServer(name, command, args, env, type, url, headers, sources) ==
  [id |-> None, name |-> name, command |-> command, args |-> args, env |-> env,
   type |-> type, url |-> url, headers |-> headers, sources |-> sources]

\* SyncResult(target=..., success=..., message=..., servers_written=[...]);
\* the message is kept as the kind of sentence the code formats
SyncResult(target, success, message, servers_written) ==
  [target |-> target, success |-> success, message |-> message,
   servers_written |-> servers_written]

\* ------------------------------------------- config_manager.py: conversion
\* entry.get(key, default) on a raw JSON object, the value untagged
Field(entry, key, default) == IF key \in DOMAIN entry THEN entry[key][2] ELSE default

\* _to_canonical with the array-command branch keeping the whole list as args
_to_canonical_keep_head(name, entry, target) ==
  IF target.format_type = FormatType.OPENCODE
  THEN LET cmd_list == Field(entry, "command", <<>>)
           command == IF cmd_list # <<>> THEN Head(cmd_list) ELSE None
           args == IF Len(cmd_list) > 1 THEN cmd_list ELSE <<>>
       IN  McpServer(name, command, args,
                     Field(entry, "environment", <<>>),
                     Field(entry, "type", None),
                     Field(entry, "url", None),
                     Field(entry, "headers", <<>>),
                     <<target.name>>)
  ELSE McpServer(name,
                 Field(entry, "command", None),
                 Field(entry, "args", <<>>),
                 Field(entry, "env", <<>>),
                 Field(entry, "type", None),
                 Field(entry, "url", None),
                 Field(entry, "headers", <<>>),
                 <<target.name>>)

\* _to_canonical with the Standard branch not reading the entry's type
_to_canonical_no_type(name, entry, target) ==
  IF target.format_type = FormatType.OPENCODE
  THEN LET cmd_list == Field(entry, "command", <<>>)
           command == IF cmd_list # <<>> THEN Head(cmd_list) ELSE None
           args == IF Len(cmd_list) > 1 THEN Tail(cmd_list) ELSE <<>>
       IN  McpServer(name, command, args,
                     Field(entry, "environment", <<>>),
                     Field(entry, "type", None),
                     Field(entry, "url", None),
                     Field(entry, "headers", <<>>),
                     <<target.name>>)
  ELSE McpServer(name,
                 Field(entry, "command", None),
                 Field(entry, "args", <<>>),
                 Field(entry, "env", <<>>),
                 None,
                 Field(entry, "url", None),
                 Field(entry, "headers", <<>>),
                 <<target.name>>)

_to_canonical(name, entry, target) ==
  IF target.format_type = FormatType.OPENCODE
  THEN LET cmd_list == Field(entry, "command", <<>>)
           command == IF cmd_list # <<>> THEN Head(cmd_list) ELSE None
           args == IF Len(cmd_list) > 1 THEN Tail(cmd_list) ELSE <<>>
       IN  McpServer(name, command, args,
                     Field(entry, "environment", <<>>),
                     Field(entry, "type", None),
                     Field(entry, "url", None),
                     Field(entry, "headers", <<>>),
                     <<target.name>>)
  ELSE McpServer(name,
                 Field(entry, "command", None),
                 Field(entry, "args", <<>>),
                 Field(entry, "env", <<>>),
                 Field(entry, "type", None),
                 Field(entry, "url", None),
                 Field(entry, "headers", <<>>),
                 <<target.name>>)

\* `if cond: entry[key] = value`
SetIf(cond, key, value) == IF cond THEN key :> value ELSE EmptyDict

\* HeaderArgs with each header passed as one "--header=K: V" argument
RECURSIVE HeaderArgs_joined(_)
HeaderArgs_joined(headers) ==
  IF headers = <<>> THEN <<>>
  ELSE <<"--header=" \o Head(headers)[1] \o ": " \o Head(headers)[2]>>
         \o HeaderArgs_joined(Tail(headers))

\* for key, value in headers.items(): args.extend(["--header", f"{key}: {value}"])
RECURSIVE HeaderArgs(_)
HeaderArgs(headers) ==
  IF headers = <<>> THEN <<>>
  ELSE <<"--header", Head(headers)[1] \o ": " \o Head(headers)[2]>>
         \o HeaderArgs(Tail(headers))

\* _from_canonical with the command, when set, taking precedence over the url
_from_canonical_command_first(server, target) ==
  LET remote == Truthy(server.url) /\ ~Truthy(server.command)
  IN  IF target.format_type = FormatType.OPENCODE
      THEN IF remote
           THEN ("type" :> JStr("remote")) @@ ("url" :> JStr(server.url))
                  @@ SetIf(server.headers # <<>>, "headers", JMap(server.headers))
           ELSE ("type" :> JStr("local"))
                  @@ ("command" :>
                        JList((IF Truthy(server.command) THEN <<server.command>>
                               ELSE <<>>) \o server.args))
                  @@ SetIf(server.env # <<>>, "environment", JMap(server.env))
      ELSE IF target.format_type = FormatType.VSCODE
      THEN IF remote
           THEN ("type" :> JStr(IF Truthy(server.type) THEN server.type ELSE "http"))
                  @@ ("url" :> JStr(server.url))
                  @@ SetIf(server.headers # <<>>, "headers", JMap(server.headers))
           ELSE SetIf(Truthy(server.command), "command", JStr(server.command))
                  @@ SetIf(server.args # <<>>, "args", JList(server.args))
                  @@ SetIf(server.env # <<>>, "env", JMap(server.env))
      ELSE IF remote
           THEN ("command" :> JStr("npx"))
                  @@ ("args" :> JList(<<"mcp-remote", server.url>>
                                        \o HeaderArgs(server.headers)))
           ELSE SetIf(Truthy(server.command), "command", JStr(server.command))
                  @@ SetIf(server.args # <<>>, "args", JList(server.args))
                  @@ SetIf(server.env # <<>>, "env", JMap(server.env))
                  @@ SetIf(Truthy(server.type) /\ server.type = "stdio",
                           "type", JStr(server.type))

_from_canonical(server, target) ==
  IF target.format_type = FormatType.OPENCODE
  THEN IF Truthy(server.url)
       THEN ("type" :> JStr("remote")) @@ ("url" :> JStr(server.url))
              @@ SetIf(server.headers # <<>>, "headers", JMap(server.headers))
       ELSE ("type" :> JStr("local"))
              @@ ("command" :>
                    JList((IF Truthy(server.command) THEN <<server.command>> ELSE <<>>)
                            \o server.args))
              @@ SetIf(server.env # <<>>, "environment", JMap(server.env))
  ELSE IF target.format_type = FormatType.VSCODE
  THEN IF Truthy(server.url)
       THEN ("type" :> JStr(IF Truthy(server.type) THEN server.type ELSE "http"))
              @@ ("url" :> JStr(server.url))
              @@ SetIf(server.headers # <<>>, "headers", JMap(server.headers))
       ELSE SetIf(Truthy(server.command), "command", JStr(server.command))
              @@ SetIf(server.args # <<>>, "args", JList(server.args))
              @@ SetIf(server.env # <<>>, "env", JMap(server.env))
  ELSE IF Truthy(server.url)
       THEN ("command" :> JStr("npx"))
              @@ ("args" :> JList(<<"mcp-remote", server.url>>
                                    \o HeaderArgs(server.headers)))
       ELSE SetIf(Truthy(server.command), "command", JStr(server.command))
              @@ SetIf(server.args # <<>>, "args", JList(server.args))
              @@ SetIf(server.env # <<>>, "env", JMap(server.env))
              @@ SetIf(Truthy(server.type) /\ server.type = "stdio",
                       "type", JStr(server.type))

\* ------------------------------------------------ config_manager.py: files
\* file contents: a zero-length file, bytes that do not parse, or a JSON
\* object (its top-level keys mapped to tagged JSON values)
EmptyFile == [kind |-> "empty", doc |-> EmptyDict]
InvalidFile == [kind |-> "invalid", doc |-> EmptyDict]
JsonFile(doc) == [kind |-> "json", doc |-> doc]

Exists(files, path) == path \in DOMAIN files

\* PyYAML is importable (it is a declared dependency of the backend)
_YAML_OK == TRUE

_read_json(files, path) ==
  IF ~Exists(files, path) \/ files[path].kind = "empty" THEN Ok(EmptyDict)
  ELSE IF files[path].kind = "invalid" THEN Raise("JSONDecodeError")
  ELSE Ok(files[path].doc)

_read_yaml(files, path) ==
  IF ~_YAML_OK THEN Ok(EmptyDict)
  ELSE IF ~Exists(files, path) \/ files[path].kind = "empty" THEN Ok(EmptyDict)
  ELSE IF files[path].kind = "invalid" THEN Raise("YAMLError")
  ELSE Ok(files[path].doc)

_read_config(files, path, is_yaml) ==
  IF is_yaml THEN _read_yaml(files, path) ELSE _read_json(files, path)

\* `is_yaml = target.format_type == FormatType.YAML`.  The right-hand side is
\* an attribute access on the enum class, evaluated before the comparison;
\* FormatType declares STANDARD, OPENCODE and VSCODE only, so the access
\* raises AttributeError whatever the target is.
IsYaml(target) ==
  LET member == EnumAttr(FormatType, "YAML")
  IN  IF member.ok THEN Ok(target.format_type = member.val) ELSE member

read_target_servers(files, target, project_dir) ==
  LET path == _resolve_path(target, project_dir)
      is_yaml == IsYaml(target)
  IN  IF ~is_yaml.ok THEN is_yaml
      ELSE LET data == _read_config(files, path, is_yaml.val)
           IN  IF ~data.ok THEN data
               ELSE LET raw_servers == Get(data.val, target.root_key, JObj(EmptyDict))
                    IN  IF ~IsObj(raw_servers) THEN Raise("AttributeError")
                        ELSE Ok([name \in {n \in DOMAIN raw_servers[2] :
                                             IsObj(raw_servers[2][n])} |->
                                   _to_canonical(name, raw_servers[2][name][2], target)])

\* for src in srv.sources: if src not in sources: sources.append(src)
RECURSIVE AppendNew(_, _)
AppendNew(sources, more) ==
  IF more = <<>> THEN sources
  ELSE AppendNew(IF \E i \in 1..Len(sources) : sources[i] = Head(more)
                 THEN sources ELSE Append(sources, Head(more)),
                 Tail(more))

\* the body of the `for name, srv in servers.items()` loop of discovery
MergeServers(merged, servers) ==
  [name \in (DOMAIN merged) \cup (DOMAIN servers) |->
     IF name \in DOMAIN merged
     THEN IF name \in DOMAIN servers
          THEN [merged[name] EXCEPT !.sources = AppendNew(@, servers[name].sources)]
          ELSE merged[name]
     ELSE servers[name]]

\* the `for target in targets` loop of discovery
RECURSIVE MergeTargets(_, _, _, _)
MergeTargets(files, targets, project_dir, merged) ==
  IF targets = <<>> THEN merged
  ELSE LET servers == read_target_servers(files, Head(targets), project_dir)
       IN  MergeTargets(files, Tail(targets), project_dir,
                        IF servers.ok THEN MergeServers(merged, servers.val)
                        ELSE merged)

discover_all_servers(files, scope, project_dir) ==
  MergeTargets(files, get_targets_by_scope(scope), project_dir, EmptyDict)

\* ----------------------------------------------- config_manager.py: write
YamlFile(doc) == [kind |-> "yaml", doc |-> doc]

\* the directory a path lives in
Parent(path) == <<path.root, path.dir>>

\* open(p, "w") / shutil.copy2 into a directory: PermissionError when the
\* process may not write there
Writable(noWrite, path) == Parent(path) \notin noWrite

\* each returns [ok, exc, val, files]: the value and the file system left
Done(v, files) == [ok |-> TRUE, exc |-> None, val |-> v, files |-> files]
Failed(e, files) == [ok |-> FALSE, exc |-> e, val |-> None, files |-> files]

_write_json(files, noWrite, path, data) ==
  IF ~Writable(noWrite, path) THEN Failed("PermissionError", files)
  ELSE Done(None, Put(files, path, JsonFile(data)))

_write_yaml(files, noWrite, path, data) ==
  IF ~_YAML_OK THEN Failed("RuntimeError", files)
  ELSE IF ~Writable(noWrite, path) THEN Failed("PermissionError", files)
  ELSE Done(None, Put(files, path, YamlFile(data)))

_write_config(files, noWrite, path, data, is_yaml) ==
  IF is_yaml THEN _write_yaml(files, noWrite, path, data)
  ELSE _write_json(files, noWrite, path, data)

\* datetime.now().strftime("%Y%m%d_%H%M%S"): one string per second
Timestamp(clock) == "20260101_00000" \o ToString(clock)

backup_config(files, noWrite, clock, target, project_dir) ==
  LET path == _resolve_path(target, project_dir)
      backup_path == with_suffix(path, ".bak." \o Timestamp(clock))
  IN  IF ~Exists(files, path) THEN Done(Nothing, files)
      ELSE IF ~Writable(noWrite, backup_path) THEN Failed("PermissionError", files)
      ELSE Done(Some(backup_path), Put(files, backup_path, files[path]))

\* for srv in servers: server_entries[srv.name] = _from_canonical(srv, target)
RECURSIVE Upsert(_, _, _)
Upsert(server_entries, servers, target) ==
  IF servers = <<>> THEN server_entries
  ELSE Upsert(Put(server_entries, Head(servers).name,
                  JObj(_from_canonical(Head(servers), target))),
              Tail(servers), target)

\* [s.name for s in servers]
Names(servers) == [i \in 1..Len(servers) |-> servers[i].name]

\* A call's outcome: it raised exc to its caller, or returned result; files
\* is the file system it leaves either way.
Raised(e, files) == [raised |-> TRUE, exc |-> e, result |-> None, files |-> files]
Returned(r, files) == [raised |-> FALSE, exc |-> None, result |-> r, files |-> files]

\* the try-block of write_servers_to_target, up to its return or its raise
WriteBody(files, noWrite, clock, target, servers, create_backup, project_dir, path, is_yaml) ==
  LET backed == IF create_backup
                THEN backup_config(files, noWrite, clock, target, project_dir)
                ELSE Done(Nothing, files)
  IN  IF ~backed.ok THEN backed
      ELSE LET existing == _read_config(backed.files, path, is_yaml)
           IN  IF ~existing.ok THEN Failed(existing.exc, backed.files)
               ELSE LET server_entries ==
                          Get(existing.val, target.root_key, JObj(EmptyDict))
                    IN  IF ~IsObj(server_entries) /\ servers # <<>>
                        THEN Failed("TypeError", backed.files)
                        ELSE _write_config(
                               backed.files, noWrite, path,
                               Put(existing.val, target.root_key,
                                   IF servers = <<>> THEN server_entries
                                   ELSE JObj(Upsert(server_entries[2], servers, target))),
                               is_yaml)

write_servers_to_target(files, noWrite, clock, target, servers, create_backup, project_dir) ==
  LET path == _resolve_path(target, project_dir)
      is_yaml == IsYaml(target)
  IN  IF ~is_yaml.ok THEN Raised(is_yaml.exc, files)
      ELSE LET body == WriteBody(files, noWrite, clock, target, servers,
                                 create_backup, project_dir, path, is_yaml.val)
           IN  IF body.ok
               THEN Returned(SyncResult(target.name, TRUE, "Wrote", Names(servers)),
                             body.files)
               ELSE Returned(SyncResult(target.name, FALSE, "Error writing", <<>>),
                             body.files)

\* the server another writer adds to a target's file
Theirs(target) ==
  JObj(_from_canonical(McpServer("theirs", "node", <<>>, <<>>, None, None, <<>>, <<>>), target))

\* the file as another writer leaves it when it stores, after this call's
\* read, the document it read itself with a server "theirs" added
Intruded(files, path, target, existing) ==
  LET mapping == Get(existing, target.root_key, JObj(EmptyDict))
  IN  Put(files, path,
          JsonFile(Put(existing, target.root_key,
                       JObj(Put(IF IsObj(mapping) THEN mapping[2] ELSE EmptyDict,
                                "theirs", Theirs(target))))))

\* the try-block of write_servers_to_target when another writer stores its
\* document between the call's _read_config and its _write_config
RacedWriteBody(files, noWrite, clock, target, servers, create_backup, project_dir, path, is_yaml) ==
  LET backed == IF create_backup
                THEN backup_config(files, noWrite, clock, target, project_dir)
                ELSE Done(Nothing, files)
  IN  IF ~backed.ok THEN backed
      ELSE LET existing == _read_config(backed.files, path, is_yaml)
           IN  IF ~existing.ok THEN Failed(existing.exc, backed.files)
               ELSE LET server_entries ==
                          Get(existing.val, target.root_key, JObj(EmptyDict))
                        between == Intruded(backed.files, path, target, existing.val)
                    IN  IF ~IsObj(server_entries) /\ servers # <<>>
                        THEN Failed("TypeError", between)
                        ELSE _write_config(
                               between, noWrite, path,
                               Put(existing.val, target.root_key,
                                   IF servers = <<>> THEN server_entries
                                   ELSE JObj(Upsert(server_entries[2], servers, target))),
                               is_yaml)

\* write_servers_to_target with that other writer at work
raced_write_servers_to_target(files, noWrite, clock, target, servers, create_backup, project_dir) ==
  LET path == _resolve_path(target, project_dir)
      is_yaml == IsYaml(target)
  IN  IF ~is_yaml.ok THEN Raised(is_yaml.exc, files)
      ELSE LET body == RacedWriteBody(files, noWrite, clock, target, servers,
                                      create_backup, project_dir, path, is_yaml.val)
           IN  IF body.ok
               THEN Returned(SyncResult(target.name, TRUE, "Wrote", Names(servers)),
                             body.files)
               ELSE Returned(SyncResult(target.name, FALSE, "Error writing", <<>>),
                             body.files)

\* the try-block of remove_server_from_target; val tells whether the name
\* was found
RemoveBody(files, noWrite, target, server_name, path, is_yaml) ==
  LET data == _read_config(files, path, is_yaml)
  IN  IF ~data.ok THEN Failed(data.exc, files)
      ELSE LET servers == Get(data.val, target.root_key, JObj(EmptyDict))
           IN  IF ~IsObj(servers) THEN Failed("TypeError", files)
               ELSE IF server_name \notin DOMAIN servers[2] THEN Done(FALSE, files)
               ELSE LET written ==
                          _write_config(files, noWrite, path,
                                        Put(data.val, target.root_key,
                                            JObj(Del(servers[2], server_name))),
                                        is_yaml)
                    IN  IF written.ok THEN Done(TRUE, written.files) ELSE written

remove_server_from_target(files, noWrite, target, server_name, project_dir) ==
  LET path == _resolve_path(target, project_dir)
      is_yaml == IsYaml(target)
  IN  IF ~is_yaml.ok THEN Raised(is_yaml.exc, files)
      ELSE LET body == RemoveBody(files, noWrite, target, server_name, path,
                                  is_yaml.val)
           IN  IF ~body.ok
               THEN Returned(SyncResult(target.name, FALSE, "Error removing", <<>>),
                             body.files)
               ELSE IF body.val
               THEN Returned(SyncResult(target.name, TRUE, "Removed", <<>>), body.files)
               ELSE Returned(SyncResult(target.name, TRUE, "not found", <<>>), body.files)

\* the try-block of rename_server_in_target; val tells whether old_name was
\* found
RenameBody(files, noWrite, target, old_name, new_name, path, is_yaml) ==
  LET data == _read_config(files, path, is_yaml)
  IN  IF ~data.ok THEN Failed(data.exc, files)
      ELSE LET servers == Get(data.val, target.root_key, JObj(EmptyDict))
           IN  IF ~IsObj(servers) THEN Failed("TypeError", files)
               ELSE IF old_name \notin DOMAIN servers[2] THEN Done(FALSE, files)
               ELSE LET entry == servers[2][old_name]
                        written ==
                          _write_config(files, noWrite, path,
                                        Put(data.val, target.root_key,
                                            JObj(Put(Del(servers[2], old_name),
                                                     new_name, entry))),
                                        is_yaml)
                    IN  IF written.ok THEN Done(TRUE, written.files) ELSE written

rename_server_in_target(files, noWrite, target, old_name, new_name, project_dir) ==
  LET path == _resolve_path(target, project_dir)
      is_yaml == IsYaml(target)
  IN  IF ~is_yaml.ok THEN Raised(is_yaml.exc, files)
      ELSE LET body == RenameBody(files, noWrite, target, old_name, new_name, path,
                                  is_yaml.val)
           IN  IF ~body.ok
               THEN Returned(SyncResult(target.name, FALSE, "Error renaming", <<>>),
                             body.files)
               ELSE IF body.val
               THEN Returned(SyncResult(target.name, TRUE, "Renamed", <<>>), body.files)
               ELSE Returned(SyncResult(target.name, TRUE, "not in", <<>>), body.files)

\* ------------------------------------------------ config_manager.py: sync
\* [all_servers[n] for n in server_names if n in all_servers]
RECURSIVE Pick(_, _)
Pick(all_servers, server_names) ==
  IF server_names = <<>> THEN <<>>
  ELSE (IF Head(server_names) \in DOMAIN all_servers
        THEN <<all_servers[Head(server_names)]>> ELSE <<>>)
         \o Pick(all_servers, Tail(server_names))

\* the `for tname in target_names` loop of sync_servers; result is
\* [results, backups] when the loop runs to its end
RECURSIVE SyncLoop(_, _, _, _, _, _, _, _)
SyncLoop(files, noWrite, clock, target_names, servers_to_sync, project_dir, results, backups) ==
  IF target_names = <<>>
  THEN Returned([results |-> results, backups |-> backups], files)
  ELSE LET tname == Head(target_names)
           found == get_target(tname)
           target == found[1]
       IN  IF found = Nothing
           THEN SyncLoop(files, noWrite, clock, Tail(target_names), servers_to_sync,
                         project_dir,
                         Append(results, SyncResult(tname, FALSE, "Unknown target", <<>>)),
                         backups)
           ELSE LET bp == backup_config(files, noWrite, clock, target, project_dir)
                IN  IF ~bp.ok THEN Raised(bp.exc, bp.files)
                    ELSE LET written ==
                               write_servers_to_target(bp.files, noWrite, clock, target,
                                                       servers_to_sync, FALSE,
                                                       project_dir)
                         IN  IF written.raised THEN Raised(written.exc, written.files)
                             ELSE SyncLoop(written.files, noWrite, clock,
                                           Tail(target_names), servers_to_sync,
                                           project_dir,
                                           Append(results, written.result),
                                           IF bp.val # Nothing
                                           THEN Put(backups, tname, bp.val[1])
                                           ELSE backups)

sync_servers(files, noWrite, clock, server_names, target_names, scope, project_dir) ==
  LET all_servers == discover_all_servers(files, scope, project_dir)
      servers_to_sync == Pick(all_servers, server_names)
  IN  SyncLoop(files, noWrite, clock, target_names, servers_to_sync, project_dir,
               <<>>, EmptyDict)

\* ------------------------------------------------------ server_registry.py
\* a row of the servers table: PRIMARY KEY id, UNIQUE (name, scope, project)
Row(id, name, scope, project, server) ==
  [id |-> id, name |-> name, scope |-> scope, project |-> project,
   command |-> server.command, args |-> server.args, env |-> server.env,
   type |-> server.type, url |-> server.url, headers |-> server.headers]

\* SELECT * FROM servers WHERE id = ?
get_server_by_id(rows, server_id) ==
  IF server_id \in DOMAIN rows THEN Some(rows[server_id]) ELSE Nothing

\* the ids of the rows with this (name, scope, project)
RowsNamed(rows, name, scope, project) ==
  { id \in DOMAIN rows :
      /\ rows[id].name = name
      /\ rows[id].scope = scope
      /\ rows[id].project = project }

\* rename_server on a table without the UNIQUE constraint
rename_server_unchecked(rows, server_id, new_name) ==
  IF server_id \notin DOMAIN rows THEN Ok(rows)
  ELSE Ok([rows EXCEPT ![server_id].name = new_name])

\* UPDATE servers SET name = ? WHERE id = ?; the UNIQUE constraint makes
\* the statement fail when another row of the scope has the name
rename_server(rows, server_id, new_name) ==
  IF server_id \notin DOMAIN rows THEN Ok(rows)
  ELSE IF RowsNamed(rows, new_name, rows[server_id].scope, rows[server_id].project)
            \ {server_id} # {}
  THEN Raise("IntegrityError")
  ELSE Ok([rows EXCEPT ![server_id].name = new_name])

\* SOURCE_TAG
SOURCE_TAG == "opensync"

\* _row_to_server(row): the row as a record, attributed to the registry
_row_to_server(row) ==
  [id |-> row.id, name |-> row.name, command |-> row.command, args |-> row.args,
   env |-> row.env, type |-> row.type, url |-> row.url, headers |-> row.headers,
   sources |-> <<SOURCE_TAG>>]

\* the scope and project a call with (scope, project) addresses: the project
\* scope only when a project is named, the global scope otherwise
ActualScope(scope, project) ==
  IF scope = "project" /\ Truthy(project) THEN "project" ELSE "global"
ProjVal(scope, project) ==
  IF scope = "project" /\ Truthy(project) THEN project ELSE ""

\* the elements of a finite set, as a list
RECURSIVE SetToSeq(_)
SetToSeq(S) ==
  IF S = {} THEN <<>>
  ELSE LET x == CHOOSE y \in S : TRUE IN <<x>> \o SetToSeq(S \ {x})

\* SELECT * FROM servers WHERE scope = ? AND project = ?; without a project
\* the rows of the global scope
list_servers(rows, scope, project) ==
  LET ids == { id \in DOMAIN rows :
                 /\ rows[id].scope = ActualScope(scope, project)
                 /\ rows[id].project = ProjVal(scope, project) }
      listed == SetToSeq(ids)
  IN  [i \in 1..Len(listed) |-> _row_to_server(rows[listed[i]])]

\* SELECT * FROM servers WHERE name = ? AND scope = ? AND project = ?
get_server(rows, name, scope, project) ==
  LET ids == RowsNamed(rows, name, ActualScope(scope, project), ProjVal(scope, project))
  IN  IF ids = {} THEN Nothing
      ELSE Some(_row_to_server(rows[CHOOSE id \in ids : TRUE]))

\* add or update by (name, scope, project); uuid is what uuid.uuid4() gives
\* when the server carries no id. An INSERT under an id that is already in
\* the table fails on the primary key. The value is the table left and the
\* server returned.
add_server(rows, server, scope, project, uuid) ==
  LET actual_scope == ActualScope(scope, project)
      proj_val == ProjVal(scope, project)
      server_id == IF Truthy(server.id) THEN server.id ELSE uuid
      existing == RowsNamed(rows, server.name, actual_scope, proj_val)
      saved(id) == [server EXCEPT !.id = id, !.sources = <<SOURCE_TAG>>]
  IN  IF existing # {}
      THEN LET id == CHOOSE id \in existing : TRUE
           IN  Ok([rows |-> Put(rows, id,
                                Row(id, server.name, actual_scope, proj_val, server)),
                   server |-> saved(id)])
      ELSE IF server_id \in DOMAIN rows THEN Raise("IntegrityError")
      ELSE Ok([rows |-> Put(rows, server_id,
                            Row(server_id, server.name, actual_scope, proj_val,
                                server)),
               server |-> saved(server_id)])

\* DELETE FROM servers WHERE name = ? AND scope = ? AND project = ?; the
\* value is the table left and whether a row went
remove_server(rows, name, scope, project) ==
  LET ids == RowsNamed(rows, name, ActualScope(scope, project), ProjVal(scope, project))
  IN  [rows |-> [id \in (DOMAIN rows) \ ids |-> rows[id]], removed |-> ids # {}]

\* ------------------------------------------------- api.py: registry update
\* UpdateServerRequest: name, scope and project_name; the server fields it
\* carries are those of `fields`
UpdateServerRequest(name, fields, scope, project_name) ==
  [name |-> name, fields |-> fields, scope |-> scope, project_name |-> project_name]

\* project_registry.get_project(name)["path"], for the projects on record
ProjectPaths == "proj" :> ProjectDir

\* for t in targets: try: rename_server_in_target(...) except Exception: pass
RECURSIVE RenameInTargets(_, _, _, _, _, _)
RenameInTargets(files, noWrite, targets, old_name, new_name, project_dir) ==
  IF targets = <<>> THEN files
  ELSE RenameInTargets(
         rename_server_in_target(files, noWrite, Head(targets), old_name, new_name,
                                 project_dir).files,
         noWrite, Tail(targets), old_name, new_name, project_dir)

\* the project directory the handler resolves for the request
RequestDir(req) ==
  IF req.scope = "project" /\ Truthy(req.project_name)
       /\ req.project_name \in DOMAIN ProjectPaths
  THEN ProjectPaths[req.project_name]
  ELSE None

\* the scope whose targets the handler renames in
RequestScope(req) == IF req.scope = "project" THEN Scope.PROJECT ELSE Scope.GLOBAL

\* gives [raised, exc, files, rows]: the HTTP error or the return, and the
\* file system and the table the handler leaves
update_registry_server(files, noWrite, rows, server_id, req) ==
  LET existing == get_server_by_id(rows, server_id)
      old_name == existing[1].name
      new_name == IF Truthy(req.name) THEN req.name ELSE old_name
      is_rename == new_name # old_name
      reg_scope == IF Truthy(req.scope) THEN req.scope ELSE "global"
      renamed_files ==
        IF is_rename
        THEN RenameInTargets(files, noWrite, get_targets_by_scope(RequestScope(req)),
                             old_name, new_name, RequestDir(req))
        ELSE files
      renamed_rows == IF is_rename THEN rename_server(rows, server_id, new_name)
                      ELSE Ok(rows)
      srv == [req.fields EXCEPT !.id = server_id, !.name = new_name]
  IN  IF existing = Nothing
      THEN [raised |-> TRUE, exc |-> "HTTPException", files |-> files, rows |-> rows]
      ELSE IF ~renamed_rows.ok
      THEN [raised |-> TRUE, exc |-> renamed_rows.exc, files |-> renamed_files,
            rows |-> rows]
      ELSE LET saved == add_server(renamed_rows.val, srv, reg_scope, req.project_name,
                                   None)
           IN  IF saved.ok
               THEN [raised |-> FALSE, exc |-> None, files |-> renamed_files,
                     rows |-> saved.val.rows]
               ELSE [raised |-> TRUE, exc |-> saved.exc, files |-> renamed_files,
                     rows |-> renamed_rows.val]

\* ------------------------------------------- api.py: listing and syncing
\* Scope(scope), a 400 for a string that names no scope
_parse_scope(scope) ==
  IF scope \in {Scope.GLOBAL, Scope.PROJECT} THEN Ok(scope) ELSE Raise("HTTPException")

\* the directories that exist (Path.is_dir)
Directories == {ProjectDir, "/other"}

\* project scope needs a path that is a directory; paths are given absolute,
\* so expanduser().resolve() leaves them as they are
_resolve_project_dir(project_path, scope) ==
  IF scope = Scope.PROJECT
  THEN IF ~Truthy(project_path) THEN Raise("HTTPException")
       ELSE IF project_path \notin Directories THEN Raise("HTTPException")
       ELSE Ok(project_path)
  ELSE Ok(None)

\* the name of the project on record whose path is pdir, None without one
RegProject(s, pdir) ==
  IF s = Scope.PROJECT /\ Truthy(pdir)
       /\ \E name \in DOMAIN ProjectPaths : ProjectPaths[name] = pdir
  THEN CHOOSE name \in DOMAIN ProjectPaths : ProjectPaths[name] = pdir
  ELSE None

\* list_servers' loop over the registry's servers: a name already merged
\* gets the source tag once and the registry's id, a new name its record
RECURSIVE MergeRegistry(_, _)
MergeRegistry(merged, listed) ==
  IF listed = <<>> THEN merged
  ELSE LET reg_srv == Head(listed)
           name == reg_srv.name
       IN  MergeRegistry(
             IF name \in DOMAIN merged
             THEN Put(merged, name,
                      [merged[name] EXCEPT
                         !.sources = AppendNew(@, <<SOURCE_TAG>>),
                         !.id = IF Truthy(reg_srv.id) THEN reg_srv.id ELSE @])
             ELSE Put(merged, name, reg_srv),
             Tail(listed))

\* GET /servers: gives Ok(merged) or the HTTP error
api_list_servers(files, rows, scope, project_path) ==
  LET s == _parse_scope(scope)
      pdir == _resolve_project_dir(project_path, s.val)
      reg_scope == IF s.val = Scope.PROJECT THEN "project" ELSE "global"
  IN  IF ~s.ok THEN s
      ELSE IF ~pdir.ok THEN pdir
      ELSE Ok(MergeRegistry(discover_all_servers(files, s.val, pdir.val),
                            list_servers(rows, reg_scope, RegProject(s.val, pdir.val))))

\* do_sync's loop over the registry's servers: only the names not discovered
RECURSIVE AddMissing(_, _)
AddMissing(all_servers, listed) ==
  IF listed = <<>> THEN all_servers
  ELSE AddMissing(IF Head(listed).name \in DOMAIN all_servers THEN all_servers
                  ELSE Put(all_servers, Head(listed).name, Head(listed)),
                  Tail(listed))

\* SyncRequest
SyncRequest(server_names, target_names, scope, project_path) ==
  [server_names |-> server_names, target_names |-> target_names, scope |-> scope,
   project_path |-> project_path]

\* POST /sync: the pool is discovery plus the registry; the loop over the
\* targets is that of sync_servers, the backup outside any try
do_sync(files, noWrite, clock, rows, req) ==
  LET s == _parse_scope(req.scope)
      pdir == _resolve_project_dir(req.project_path, s.val)
      reg_scope == IF s.val = Scope.PROJECT THEN "project" ELSE "global"
      all_servers ==
        AddMissing(discover_all_servers(files, s.val, pdir.val),
                   list_servers(rows, reg_scope, RegProject(s.val, pdir.val)))
  IN  IF ~s.ok THEN Raised(s.exc, files)
      ELSE IF ~pdir.ok THEN Raised(pdir.exc, files)
      ELSE SyncLoop(files, noWrite, clock, req.target_names,
                    Pick(all_servers, req.server_names), pdir.val, <<>>, EmptyDict)

\* ----------------------------------------- llm_provider_discovery.py: write
\* LlmProvider(name=..., provider_type=..., api_key=..., base_url=...)
LlmProvider(name, provider_type, api_key, base_url) ==
  [name |-> name, provider_type |-> provider_type, api_key |-> api_key,
   base_url |-> base_url]

\* a file whose JSON text is an array, not an object
ArrayFile == [kind |-> "array", doc |-> EmptyDict]

\* Path(root) / dir / (stem + suffix)
LlmPath(root, dir, stem, suffix) ==
  [root |-> root, dir |-> dir, stem |-> stem, suffix |-> suffix]

\* parsed JSON, or {} if the file is missing, empty or unreadable; the value
\* is whatever the text holds, an object or not
llm_read_json(files, path) ==
  IF ~Exists(files, path) THEN JObj(EmptyDict)
  ELSE IF files[path].kind \in {"json", "yaml"} THEN JObj(files[path].doc)
  ELSE IF files[path].kind = "array" THEN JList(<<>>)
  ELSE JObj(EmptyDict)

llm_write_json(files, noWrite, path, data) ==
  IF ~Writable(noWrite, path) THEN Failed("PermissionError", files)
  ELSE Done(None, Put(files, path, JsonFile(data)))

\* parsed YAML when it is a mapping, {} otherwise
llm_read_yaml(files, path) ==
  IF ~_YAML_OK THEN EmptyDict
  ELSE IF ~Exists(files, path) THEN EmptyDict
  ELSE IF files[path].kind \in {"json", "yaml"} THEN files[path].doc
  ELSE EmptyDict

llm_write_yaml(files, noWrite, path, data) ==
  IF ~Writable(noWrite, path) THEN Failed("PermissionError", files)
  ELSE Done(None, Put(files, path, YamlFile(data)))

\* {"success": ..., "message": ...} and the file system the call leaves
WriteResult(success, message, files) ==
  [success |-> success, message |-> message, files |-> files]

\* key = provider.provider_type or provider.name
ProviderKey(provider) ==
  IF Truthy(provider.provider_type) THEN provider.provider_type ELSE provider.name

\* if value: entry[key] = value
PutIf(d, k, value) == IF Truthy(value) THEN Put(d, k, JStr(value)) ELSE d

\* if key not in data or not isinstance(data[key], dict): data[key] = {}
WithDict(data, k) ==
  IF k \notin DOMAIN data \/ ~IsObj(data[k]) THEN Put(data, k, JObj(EmptyDict))
  ELSE data

\* the tail of every writer: _write_json/_write_yaml inside the try block,
\* `except Exception` turning a raise into a failure result
Written(w, files, done, failed) ==
  IF w.ok THEN WriteResult(TRUE, done, w.files)
  ELSE WriteResult(FALSE, failed \o w.exc, files)

_provider_to_opencode_entry(provider) ==
  LET named == IF Truthy(provider.name) /\ provider.name # provider.provider_type
               THEN Put(EmptyDict, "name", JStr(provider.name)) ELSE EmptyDict
      options == PutIf(PutIf(EmptyDict, "baseURL", provider.base_url),
                       "apiKey", provider.api_key)
  IN  IF DOMAIN options # {} THEN Put(named, "options", JObj(options)) ELSE named

_OPENCODE_CONFIG_PATH == LlmPath(Home, ".config/opencode", "opencode", ".json")

_write_provider_to_opencode(files, noWrite, provider, path) ==
  LET read == llm_read_json(files, path)
      key == ProviderKey(provider)
      failed == "Failed to write to OpenCode: "
  IN  IF ~IsObj(read) THEN WriteResult(FALSE, failed \o "TypeError", files)
      ELSE LET data == WithDict(read[2], "provider")
               out == Put(data, "provider",
                          JObj(Put(data["provider"][2], key,
                                   JObj(_provider_to_opencode_entry(provider)))))
           IN  Written(llm_write_json(files, noWrite, path, out), files,
                       "Written to OpenCode as provider '" \o key \o "'", failed)

_CONTINUE_CONFIG_PATH == LlmPath(Home, ".continue", "config", ".yaml")

_write_provider_to_continue(files, noWrite, provider, path) ==
  IF ~_YAML_OK
  THEN WriteResult(FALSE, "PyYAML is required to write Continue config", files)
  ELSE
    LET read == llm_read_yaml(files, path)
        data == IF "models" \notin DOMAIN read \/ read["models"][1] # "list"
                THEN Put(read, "models", JList(<<>>)) ELSE read
        models == data["models"][2]
        key == ProviderKey(provider)
        hits == { i \in 1..Len(models) :
                    /\ IsObj(models[i])
                    /\ "provider" \in DOMAIN models[i][2]
                    /\ models[i][2]["provider"] = JStr(key) }
        entry == PutIf(PutIf(("provider" :> JStr(key)) @@ ("title" :> JStr(provider.name)),
                             "apiKey", provider.api_key),
                       "apiBase", provider.base_url)
        updated == IF hits # {}
                   THEN [models EXCEPT ![CHOOSE i \in hits : \A j \in hits : i <= j] = JObj(entry)]
                   ELSE Append(models, JObj(entry))
    IN  Written(llm_write_yaml(files, noWrite, path, Put(data, "models", JList(updated))),
                files, "Written to Continue as model '" \o key \o "'",
                "Failed to write to Continue: ")

_AIDER_CONFIG_PATH == LlmPath(Home, "", ".aider.conf", ".yml")

_write_provider_to_aider(files, noWrite, provider, path) ==
  IF ~_YAML_OK
  THEN WriteResult(FALSE, "PyYAML is required to write Aider config", files)
  ELSE
    LET keyed == PutIf(PutIf(llm_read_yaml(files, path), "openai-api-key", provider.api_key),
                       "openai-api-base", provider.base_url)
        data == IF Truthy(provider.name) /\ provider.name # "aider"
                THEN Put(keyed, "model", JStr(provider.name)) ELSE keyed
    IN  Written(llm_write_yaml(files, noWrite, path, data), files,
                "Written to Aider config", "Failed to write to Aider: ")

\* the entry Claude Code and Windsurf store under the provider's key
NamedEntry(provider) ==
  LET key == ProviderKey(provider)
      named == IF Truthy(provider.name) /\ provider.name # key
               THEN Put(EmptyDict, "name", JStr(provider.name)) ELSE EmptyDict
  IN  PutIf(PutIf(named, "apiKey", provider.api_key), "baseURL", provider.base_url)

\* the upsert Claude Code and Windsurf share: data[block][key] = entry
WriteNamedEntry(files, noWrite, provider, path, block, tool) ==
  LET read == llm_read_json(files, path)
      key == ProviderKey(provider)
      failed == "Failed to write to " \o tool \o ": "
  IN  IF ~IsObj(read) THEN WriteResult(FALSE, failed \o "TypeError", files)
      ELSE LET data == WithDict(read[2], block)
               out == Put(data, block,
                          JObj(Put(data[block][2], key, JObj(NamedEntry(provider)))))
           IN  Written(llm_write_json(files, noWrite, path, out), files,
                       "Written to " \o tool \o " as provider '" \o key \o "'", failed)

_CLAUDE_CODE_CONFIG_PATH == LlmPath(Home, "", ".claude", ".json")

_write_provider_to_claude_code(files, noWrite, provider, path) ==
  WriteNamedEntry(files, noWrite, provider, path, "providers", "Claude Code")

_VSCODE_SETTINGS_PATH ==
  LlmPath(Home, "Library/Application Support/Code/User", "settings", ".json")

_write_provider_to_roo_cline(files, noWrite, provider, path) ==
  LET read == llm_read_json(files, path)
      key == ProviderKey(provider)
      failed == "Failed to write to Roo/Cline settings: "
  IN  IF ~IsObj(read) THEN WriteResult(FALSE, failed \o "TypeError", files)
      ELSE LET data == PutIf(PutIf(Put(read[2], "cline.apiProvider", JStr(key)),
                                   "cline.apiKey", provider.api_key),
                             "cline.openAiBaseUrl", provider.base_url)
           IN  Written(llm_write_json(files, noWrite, path, data), files,
                       "Written to VS Code settings as Cline provider '" \o key \o "'",
                       failed)

_WINDSURF_CONFIG_PATH == LlmPath(Home, ".codeium/windsurf", "mcp_settings", ".json")

_write_provider_to_windsurf(files, noWrite, provider, path) ==
  WriteNamedEntry(files, noWrite, provider, path, "aiProviders", "Windsurf")

\* the Plandex home directory: its root and the directory below it
_PLANDEX_HOME_PATH == <<Home, ".plandex-home">>

_write_provider_to_plandex(files, noWrite, provider, home) ==
  LET key == ProviderKey(provider)
      file_path == LlmPath(home[1], home[2], key, ".json")
      read == llm_read_json(files, file_path)
      failed == "Failed to write to Plandex: "
  IN  IF ~IsObj(read) THEN WriteResult(FALSE, failed \o "TypeError", files)
      ELSE LET data == PutIf(PutIf(Put(read[2], "provider", JStr(key)),
                                   "apiKey", provider.api_key),
                             "openAIBase", provider.base_url)
           IN  Written(llm_write_json(files, noWrite, file_path, data), files,
                       "Written to Plandex as '" \o key \o ".json'", failed)

_GEMINI_CLI_CONFIG_PATH == LlmPath(Home, ".gemini", "settings", ".json")

_write_provider_to_gemini_cli(files, noWrite, provider, path) ==
  LET read == llm_read_json(files, path)
      failed == "Failed to write to Gemini CLI: "
  IN  IF ~IsObj(read) THEN WriteResult(FALSE, failed \o "TypeError", files)
      ELSE Written(llm_write_json(files, noWrite, path,
                                  Put(read[2], "model", JStr(provider.name))),
                   files, "Written to Gemini CLI with model '" \o provider.name \o "'",
                   failed)

_AMP_CONFIG_PATH == LlmPath(Home, ".amp", "settings", ".json")

_write_provider_to_amp(files, noWrite, provider, path) ==
  LET read == llm_read_json(files, path)
      key == ProviderKey(provider)
      failed == "Failed to write to Amp: "
  IN  IF ~IsObj(read) THEN WriteResult(FALSE, failed \o "TypeError", files)
      ELSE LET data == WithDict(read[2], "model")
               model == PutIf(PutIf(Put(Put(data["model"][2], "provider", JStr(key)),
                                        "model", JStr(provider.name)),
                                    "apiKey", provider.api_key),
                              "baseUrl", provider.base_url)
           IN  Written(llm_write_json(files, noWrite, path, Put(data, "model", JObj(model))),
                       files, "Written to Amp as provider '" \o key \o "'", failed)

\* the alias table with the Cursor store sent on to a writable tool
_GLOBAL_ALIASES_cursor_writable ==
  [opencode_global |-> "opencode", continue_global |-> "continue",
   aider_global |-> "aider", claude_code_global |-> "claude_code",
   roo_cline_global |-> "roo_cline", windsurf_global |-> "windsurf",
   plandex_global |-> "plandex", gemini_cli_global |-> "gemini_cli",
   amp_global |-> "amp", cursor_global |-> "amp"]

_GLOBAL_ALIASES ==
  [opencode_global |-> "opencode", continue_global |-> "continue",
   aider_global |-> "aider", claude_code_global |-> "claude_code",
   roo_cline_global |-> "roo_cline", windsurf_global |-> "windsurf",
   plandex_global |-> "plandex", gemini_cli_global |-> "gemini_cli",
   amp_global |-> "amp", cursor_global |-> "cursor"]

write_provider_to_target(files, noWrite, provider, target_id, project_path) ==
  LET id == IF target_id \in DOMAIN _GLOBAL_ALIASES THEN _GLOBAL_ALIASES[target_id]
            ELSE target_id
      no_path == ~Truthy(project_path)
      required == WriteResult(FALSE, "project_path is required for the " \o id \o " target", files)
  IN  CASE id = "opencode" ->
             _write_provider_to_opencode(files, noWrite, provider, _OPENCODE_CONFIG_PATH)
        [] id = "opencode_project" ->
             IF no_path THEN required
             ELSE _write_provider_to_opencode(files, noWrite, provider,
                    LlmPath(project_path, "", "opencode", ".json"))
        [] id = "continue" ->
             _write_provider_to_continue(files, noWrite, provider, _CONTINUE_CONFIG_PATH)
        [] id = "continue_project" ->
             IF no_path THEN required
             ELSE _write_provider_to_continue(files, noWrite, provider,
                    LlmPath(project_path, ".continue", "config", ".yaml"))
        [] id = "aider" ->
             _write_provider_to_aider(files, noWrite, provider, _AIDER_CONFIG_PATH)
        [] id = "aider_project" ->
             IF no_path THEN required
             ELSE _write_provider_to_aider(files, noWrite, provider,
                    LlmPath(project_path, "", ".aider.conf", ".yml"))
        [] id = "claude_code" ->
             _write_provider_to_claude_code(files, noWrite, provider, _CLAUDE_CODE_CONFIG_PATH)
        [] id = "claude_code_project" ->
             IF no_path THEN required
             ELSE _write_provider_to_claude_code(files, noWrite, provider,
                    LlmPath(project_path, ".claude", "settings", ".json"))
        [] id = "roo_cline" ->
             _write_provider_to_roo_cline(files, noWrite, provider, _VSCODE_SETTINGS_PATH)
        [] id = "roo_cline_project" ->
             IF no_path THEN required
             ELSE _write_provider_to_roo_cline(files, noWrite, provider,
                    LlmPath(project_path, ".vscode", "settings", ".json"))
        [] id = "windsurf" ->
             _write_provider_to_windsurf(files, noWrite, provider, _WINDSURF_CONFIG_PATH)
        [] id = "windsurf_project" ->
             IF no_path THEN required
             ELSE _write_provider_to_windsurf(files, noWrite, provider,
                    LlmPath(project_path, ".windsurf", "mcp_settings", ".json"))
        [] id = "plandex" ->
             _write_provider_to_plandex(files, noWrite, provider, _PLANDEX_HOME_PATH)
        [] id = "plandex_project" ->
             IF no_path THEN required
             ELSE _write_provider_to_plandex(files, noWrite, provider,
                    <<project_path, ".plandex">>)
        [] id = "gemini_cli" ->
             _write_provider_to_gemini_cli(files, noWrite, provider, _GEMINI_CLI_CONFIG_PATH)
        [] id = "gemini_cli_project" ->
             IF no_path THEN required
             ELSE _write_provider_to_gemini_cli(files, noWrite, provider,
                    LlmPath(project_path, ".gemini", "settings", ".json"))
        [] id = "amp" ->
             _write_provider_to_amp(files, noWrite, provider, _AMP_CONFIG_PATH)
        [] id = "amp_project" ->
             IF no_path THEN required
             ELSE _write_provider_to_amp(files, noWrite, provider,
                    LlmPath(project_path, ".amp", "settings", ".json"))
        [] id = "cursor" ->
             WriteResult(FALSE, "Cursor does not support write-back (read-only SQLite store)", files)
        [] OTHER ->
             WriteResult(FALSE, "Unknown LLM provider target: '" \o id \o "'", files)

\* ------------------------------------------------------------ environment
\* raw entries as the tools of each dialect write them
StdUvx ==
  ("command" :> JStr("uvx")) @@ ("args" :> JList(<<"pkg">>))
    @@ ("env" :> JMap(<< <<"K", "V">> >>))
StdNode == ("command" :> JStr("node")) @@ ("type" :> JStr("stdio"))
VsHttp ==
  ("type" :> JStr("sse")) @@ ("url" :> JStr("https://x"))
    @@ ("headers" :> JMap(<< <<"A", "B">> >>))
OcUvx ==
  ("type" :> JStr("local")) @@ ("command" :> JList(<<"uvx", "pkg">>))
    @@ ("environment" :> JMap(<< <<"K", "V">> >>))
OcRemote == ("type" :> JStr("remote")) @@ ("url" :> JStr("https://x"))

FirstEntry(format_type) ==
  IF format_type = FormatType.OPENCODE THEN OcUvx
  ELSE IF format_type = FormatType.VSCODE THEN StdNode
  ELSE StdUvx

SecondEntry(format_type) ==
  IF format_type = FormatType.OPENCODE THEN OcRemote
  ELSE IF format_type = FormatType.VSCODE THEN VsHttp
  ELSE StdNode

\* what a target's file may hold when the run starts: nothing, bytes that do
\* not parse, or a document with or without the target's root key, with
\* sibling keys and with an entry that is not an object.  Within these
\* documents the value under a root key is an object and the fields of an
\* entry have the JSON types of the file's dialect.
SeedContents(target) ==
  { EmptyFile, InvalidFile,
    JsonFile(("theme" :> JStr("dark"))),
    JsonFile((target.root_key :>
                JObj("demo" :> JObj(FirstEntry(target.format_type))))
             @@ ("theme" :> JStr("dark"))),
    JsonFile((target.root_key :>
                JObj(("demo" :> JObj(SecondEntry(target.format_type)))
                     @@ ("extra" :> JObj(FirstEntry(target.format_type)))
                     @@ ("off" :> JStr("disabled"))))) }

\* the targets whose files may exist when the run starts, and the targets
\* the operations are called on
SeedTargets ==
  {"claude_code_global", "vscode_global", "opencode_global",
   "roocode_vscode_project"}

UnknownTarget == "not-a-real-target"

\* project_dir as the API layer passes it: None for the global scope
DirFor(scope) == IF scope = Scope.PROJECT THEN ProjectDir ELSE None

TargetOf(name) == get_target(name)[1]

SeedPath(name) == _resolve_path(TargetOf(name), DirFor(TargetOf(name).scope))

\* file systems with at most MaxFiles of the seed targets' files present
SeedFileSystems ==
  UNION { { f \in [ {SeedPath(n) : n \in present} ->
                      UNION {SeedContents(TargetOf(n)) : n \in present} ] :
              \A n \in present : f[SeedPath(n)] \in SeedContents(TargetOf(n)) } :
          present \in {ps \in SUBSET SeedTargets : Cardinality(ps) <= MaxFiles} }

\* sets of at most MaxDenied directories the process cannot write into
SeedDenied ==
  { ds \in SUBSET {Parent(SeedPath(n)) : n \in {"claude_code_global",
                                                "roocode_vscode_project"}} :
      Cardinality(ds) <= MaxDenied }

DemoUvx == McpServer("demo", "uvx", <<"pkg">>, << <<"K", "V">> >>, None, None, <<>>, <<>>)
DemoNode == McpServer("demo", "node", <<>>, <<>>, "stdio", None, <<>>, <<>>)
ApiRemote ==
  McpServer("api", None, <<>>, <<>>, None, "https://x", << <<"A", "B">> >>, <<>>)

\* `servers` arguments of write_servers_to_target
ServerLists == { <<>>, <<DemoUvx, DemoNode>>, <<ApiRemote, DemoUvx>> }

\* `server_names` arguments of sync_servers
NameLists == { <<"demo">>, <<"demo", "ghost">> }

\* the target ids a sync batch is made of
SyncTargets == {"claude_code_global", "roocode_vscode_project", UnknownTarget}

\* target_names lists of length 1..MaxBatch
TargetLists == UNION { [1..n -> SyncTargets] : n \in 1..MaxBatch }

\* (old_name, new_name) arguments of rename_server_in_target
RenamePairs == { <<"demo", "renamed">>, <<"ghost", "renamed">>, <<"demo", "extra">> }

\* the servers table at start: two global servers
SeedRegistry ==
  ("s1" :> Row("s1", "demo", "global", "", DemoUvx))
    @@ ("s2" :> Row("s2", "extra", "global", "", DemoNode))

\* server_id path parameters: a row's id and an id not in the table
ServerIds == {"s1", "missing"}

\* bodies of PUT /registry/{server_id}
UpdateRequests ==
  { UpdateServerRequest(name, DemoNode, scope, project_name) :
      name \in {None, "renamed", "extra"},
      scope \in {None, "global", "project"},
      project_name \in {None, "proj"} }

\* ------------------------------------------------------------------- state
VARIABLES
  fs,      \* the file system: path -> contents, for the files that exist
  now,     \* the wall clock, in seconds
  denied,  \* directories the process cannot write into
  call,    \* the engine call made last, with its arguments
  ret,     \* what that call gave back: a raise or its return value
  pre,     \* the file system when that call started
  codec,   \* a record on its way through one dialect's encoder and decoder
  registry \* the servers table of the registry: id -> row

vars == <<fs, now, denied, call, ret, pre, codec, registry>>

Call(op, target, servers, server_names, target_names, create_backup, scope, project_dir, old_name, new_name) ==
  [op |-> op, target |-> target, servers |-> servers,
   server_names |-> server_names, target_names |-> target_names,
   create_backup |-> create_backup, scope |-> scope,
   project_dir |-> project_dir, old_name |-> old_name, new_name |-> new_name]

Ret(raised, exc, results, merged, backups) ==
  [raised |-> raised, exc |-> exc, results |-> results, merged |-> merged,
   backups |-> backups]

\* the return or raise of a call that yields one SyncResult
One(out) ==
  Ret(out.raised, out.exc, IF out.raised THEN <<>> ELSE <<out.result>>,
      EmptyDict, EmptyDict)

NoCall == Call("none", None, <<>>, <<>>, <<>>, FALSE, None, None, None, None)
NoRet == Ret(FALSE, None, <<>>, EmptyDict, EmptyDict)

Idle == call.op = "none"

\* no record is being converted
NoCodec == [step |-> "none", target |-> None, server |-> Nothing, entry |-> EmptyDict, decoded |-> Nothing]

Init ==
  /\ fs \in SeedFileSystems
  /\ now = 0
  /\ denied \in SeedDenied
  /\ call = NoCall
  /\ ret = NoRet
  /\ pre = fs
  /\ codec = NoCodec
  /\ registry = SeedRegistry

\* the clock advances between calls
Tick ==
  /\ Idle
  /\ now < MaxClock
  /\ now' = now + 1
  /\ UNCHANGED <<fs, denied, call, ret, pre, codec, registry>>

Discover(scope) ==
  /\ Idle
  /\ call' = Call("discover", None, <<>>, <<>>, <<>>, FALSE, scope, DirFor(scope),
                  None, None)
  /\ ret' = Ret(FALSE, None, <<>>,
                discover_all_servers(fs, scope, DirFor(scope)), EmptyDict)
  /\ pre' = fs
  /\ UNCHANGED <<fs, now, denied, codec, registry>>

Read(tname) ==
  LET target == TargetOf(tname)
      out == read_target_servers(fs, target, DirFor(target.scope))
  IN  /\ Idle
      /\ call' = Call("read", tname, <<>>, <<>>, <<>>, FALSE, target.scope,
                      DirFor(target.scope), None, None)
      /\ ret' = IF out.ok
                THEN Ret(FALSE, None, <<>>, out.val, EmptyDict)
                ELSE Ret(TRUE, out.exc, <<>>, EmptyDict, EmptyDict)
      /\ pre' = fs
      /\ UNCHANGED <<fs, now, denied, codec, registry>>

Write(tname, servers, create_backup) ==
  LET target == TargetOf(tname)
      out == write_servers_to_target(fs, denied, now, target, servers,
                                     create_backup, DirFor(target.scope))
  IN  /\ Idle
      /\ call' = Call("write", tname, servers, <<>>, <<>>, create_backup,
                      target.scope, DirFor(target.scope), None, None)
      /\ ret' = One(out)
      /\ fs' = out.files
      /\ pre' = fs
      /\ UNCHANGED <<now, denied, codec, registry>>

Remove(tname, server_name) ==
  LET target == TargetOf(tname)
      out == remove_server_from_target(fs, denied, target, server_name,
                                       DirFor(target.scope))
  IN  /\ Idle
      /\ call' = Call("remove", tname, <<>>, <<>>, <<>>, FALSE, target.scope,
                      DirFor(target.scope), server_name, None)
      /\ ret' = One(out)
      /\ fs' = out.files
      /\ pre' = fs
      /\ UNCHANGED <<now, denied, codec, registry>>

Rename(tname, old_name, new_name) ==
  LET target == TargetOf(tname)
      out == rename_server_in_target(fs, denied, target, old_name, new_name,
                                     DirFor(target.scope))
  IN  /\ Idle
      /\ call' = Call("rename", tname, <<>>, <<>>, <<>>, FALSE, target.scope,
                      DirFor(target.scope), old_name, new_name)
      /\ ret' = One(out)
      /\ fs' = out.files
      /\ pre' = fs
      /\ UNCHANGED <<now, denied, codec, registry>>

Sync(server_names, target_names, scope) ==
  LET out == sync_servers(fs, denied, now, server_names, target_names, scope,
                          DirFor(scope))
  IN  /\ Idle
      /\ call' = Call("sync", None, <<>>, server_names, target_names, FALSE, scope,
                      DirFor(scope), None, None)
      /\ ret' = IF out.raised
                THEN Ret(TRUE, out.exc, <<>>, EmptyDict, EmptyDict)
                ELSE Ret(FALSE, None, out.result.results, EmptyDict,
                         out.result.backups)
      /\ fs' = out.files
      /\ pre' = fs
      /\ UNCHANGED <<now, denied, codec, registry>>

\* the caller has taken the outcome; the engine keeps nothing between calls
Finish ==
  /\ ~Idle
  /\ call' = NoCall
  /\ ret' = NoRet
  /\ pre' = fs
  /\ UNCHANGED <<fs, now, denied, codec, registry>>

Scopes == {Scope.GLOBAL, Scope.PROJECT}

Next ==
  \/ Tick
  \/ Finish
  \/ \E scope \in Scopes : Discover(scope)
  \/ \E tname \in SeedTargets : Read(tname)
  \/ \E tname \in SeedTargets, servers \in ServerLists, create_backup \in BOOLEAN :
       Write(tname, servers, create_backup)
  \/ \E tname \in SeedTargets, server_name \in {"demo", "ghost"} :
       Remove(tname, server_name)
  \/ \E tname \in SeedTargets, pair \in RenamePairs : Rename(tname, pair[1], pair[2])
  \/ \E server_names \in NameLists, target_names \in TargetLists, scope \in Scopes :
       Sync(server_names, target_names, scope)

Spec == Init /\ [][Next]_vars

\* ------------------------------------------------- conversion on its own
\* The two converters are pure: a second specification draws a record and a
\* target of each dialect, encodes the record with _from_canonical and
\* decodes the entry with _to_canonical.
MaxArgs == 2
MaxHeaders == 2

\* the sequences over S of length at most n
SeqsUpTo(S, n) == UNION { [1..k -> S] : k \in 0..n }

\* a dict's keys are distinct
Distinct(q) == \A i \in 1..Len(q), j \in 1..Len(q) : q[i] = q[j] => i = j

\* McpServer.args: list[str]
ArgLists == SeqsUpTo({"pkg", "-y"}, MaxArgs)

\* McpServer.env: dict[str, str]
EnvMaps == { <<>>, << <<"K", "V">> >> }

HeaderKeys == { "H" \o ToString(i) : i \in 1..MaxHeaders }

\* McpServer.headers: dict[str, str], in insertion order
HeaderMaps ==
  { [i \in 1..Len(keys) |-> <<keys[i], "B">>] :
      keys \in { q \in SeqsUpTo(HeaderKeys, MaxHeaders) : Distinct(q) } }

\* McpServer.command and McpServer.url: Optional[str], the empty string included
Commands == {None, "", "uvx", "npx"}
Urls == {None, "", "https://x"}

\* McpServer.type: the transport hints the model documents
TransportTypes == {None, "stdio", "local", "remote", "http", "sse"}

Records ==
  { McpServer("demo", command, args, env, type, url, headers, <<>>) :
      command \in Commands, args \in ArgLists, env \in EnvMaps,
      type \in TransportTypes, url \in Urls, headers \in HeaderMaps }

\* one target of each dialect
CodecTargets == {"claude_code_global", "opencode_global", "vscode_global"}

CodecInit ==
  /\ fs = EmptyDict
  /\ now = 0
  /\ denied = {}
  /\ call = NoCall
  /\ ret = NoRet
  /\ pre = EmptyDict
  /\ registry = SeedRegistry
  /\ \E server \in Records, tname \in CodecTargets :
       codec = [step |-> "record", target |-> tname, server |-> server,
                entry |-> EmptyDict, decoded |-> Nothing]

Encode ==
  /\ codec.step = "record"
  /\ codec' = [codec EXCEPT
                 !.step = "encoded",
                 !.entry = _from_canonical(codec.server, TargetOf(codec.target))]
  /\ UNCHANGED <<fs, now, denied, call, ret, pre, registry>>

Decode ==
  /\ codec.step = "encoded"
  /\ codec' = [codec EXCEPT
                 !.step = "decoded",
                 !.decoded = _to_canonical(codec.server.name, codec.entry,
                                           TargetOf(codec.target))]
  /\ UNCHANGED <<fs, now, denied, call, ret, pre, registry>>

CodecNext ==
  \/ Encode
  \/ Decode

CodecSpec == CodecInit /\ [][CodecNext]_vars

\* ------------------------------------------------ the registry's handler
UpdateRegistryServer(server_id, req) ==
  LET out == update_registry_server(fs, denied, registry, server_id, req)
      existing == get_server_by_id(registry, server_id)
  IN  /\ Idle
      /\ call' = Call("update", None, <<>>, <<>>, <<>>, FALSE, RequestScope(req),
                      RequestDir(req),
                      IF existing = Nothing THEN None ELSE existing[1].name,
                      req.name)
      /\ ret' = Ret(out.raised, out.exc, <<>>, EmptyDict, EmptyDict)
      /\ fs' = out.files
      /\ registry' = out.rows
      /\ pre' = fs
      /\ UNCHANGED <<now, denied, codec>>

RegistryNext ==
  \/ Finish
  \/ \E server_id \in ServerIds, req \in UpdateRequests :
       UpdateRegistryServer(server_id, req)

RegistrySpec == Init /\ [][RegistryNext]_vars

\* --------------------------------------------------- the API's handlers
\* scope and project_path query parameters
ScopeParams == {"global", "project", "bogus"}
PathParams == {None, ProjectDir, "/other", "/missing"}

\* server_names and target_names of a sync request
ApiNameLists == { <<"demo">>, <<"extra", "ghost">>, <<"ghost">> }
ApiTargetLists ==
  { <<"claude_code_global">>, <<"roocode_vscode_project">>, <<"vscode_global">>,
    <<"claude_code_global", UnknownTarget>>,
    <<UnknownTarget, "roocode_vscode_project">> }

SyncRequests ==
  { SyncRequest(server_names, target_names, scope, project_path) :
      server_names \in ApiNameLists, target_names \in ApiTargetLists,
      scope \in {"global", "project"}, project_path \in {None, ProjectDir} }

ListServers(scope, project_path) ==
  LET out == api_list_servers(fs, registry, scope, project_path)
  IN  /\ Idle
      /\ call' = Call("list_servers", None, <<>>, <<>>, <<>>, FALSE, scope,
                      project_path, None, None)
      /\ ret' = IF out.ok THEN Ret(FALSE, None, <<>>, out.val, EmptyDict)
                ELSE Ret(TRUE, out.exc, <<>>, EmptyDict, EmptyDict)
      /\ pre' = fs
      /\ UNCHANGED <<fs, now, denied, codec, registry>>

DoSync(req) ==
  LET out == do_sync(fs, denied, now, registry, req)
  IN  /\ Idle
      /\ call' = Call("do_sync", None, <<>>, req.server_names, req.target_names,
                      FALSE, req.scope, req.project_path, None, None)
      /\ ret' = IF out.raised
                THEN Ret(TRUE, out.exc, <<>>, EmptyDict, EmptyDict)
                ELSE Ret(FALSE, None, out.result.results, EmptyDict,
                         out.result.backups)
      /\ fs' = out.files
      /\ pre' = fs
      /\ UNCHANGED <<now, denied, codec, registry>>

ApiNext ==
  \/ Finish
  \/ \E scope \in ScopeParams, project_path \in PathParams :
       ListServers(scope, project_path)
  \/ \E req \in SyncRequests : DoSync(req)

ApiSpec == Init /\ [][ApiNext]_vars

\* ------------------------------------------------ the registry on its own
\* A third specification runs server_registry's functions and the import
\* handler against a table that starts empty.
MaxRows == 3

\* the values uuid.uuid4() can give
Uuids == { "u" \o ToString(i) : i \in 1..MaxRows }

\* (scope, project) arguments, a missing and an empty project included
ScopeArgs ==
  { <<"global", None>>, <<"project", None>>, <<"project", "">>,
    <<"project", "alpha">>, <<"project", "beta">> }

TableNames == {"demo", "extra"}

\* McpServer(name=..., command=..., sources=[]) as the callers build it
Payloads(name) == { [DemoUvx EXCEPT !.name = name], [DemoNode EXCEPT !.name = name] }

TableInit ==
  /\ fs = EmptyDict
  /\ now = 0
  /\ denied = {}
  /\ call = NoCall
  /\ ret = NoRet
  /\ pre = EmptyDict
  /\ codec = NoCodec
  /\ registry = EmptyDict

\* the call's arguments: the scope and project as given, the name or id,
\* and the new name or the uuid drawn
TableCall(op, servers, scope, project, old_name, new_name) ==
  Call(op, None, servers, <<>>, <<>>, FALSE, scope, project, old_name, new_name)

AddServer(server, scope, project, uuid) ==
  LET out == add_server(registry, server, scope, project, uuid)
  IN  /\ Idle
      /\ uuid \notin DOMAIN registry
      /\ call' = TableCall("add", <<server>>, scope, project, server.name, uuid)
      /\ ret' = IF out.ok THEN Ret(FALSE, None, <<out.val.server>>, EmptyDict, EmptyDict)
                ELSE Ret(TRUE, out.exc, <<>>, EmptyDict, EmptyDict)
      /\ registry' = IF out.ok THEN out.val.rows ELSE registry
      /\ UNCHANGED <<fs, now, denied, pre, codec>>

RemoveServer(name, scope, project) ==
  LET out == remove_server(registry, name, scope, project)
  IN  /\ Idle
      /\ call' = TableCall("remove_server", <<>>, scope, project, name, None)
      /\ ret' = Ret(FALSE, None, <<[removed |-> out.removed]>>, EmptyDict, EmptyDict)
      /\ registry' = out.rows
      /\ UNCHANGED <<fs, now, denied, pre, codec>>

RenameServer(server_id, new_name) ==
  LET out == rename_server(registry, server_id, new_name)
  IN  /\ Idle
      /\ call' = TableCall("rename_server", <<>>, None, None, server_id, new_name)
      /\ ret' = IF out.ok
                THEN Ret(FALSE, None,
                         IF server_id \in DOMAIN out.val
                         THEN <<_row_to_server(out.val[server_id])>> ELSE <<>>,
                         EmptyDict, EmptyDict)
                ELSE Ret(TRUE, out.exc, <<>>, EmptyDict, EmptyDict)
      /\ registry' = IF out.ok THEN out.val ELSE registry
      /\ UNCHANGED <<fs, now, denied, pre, codec>>

ListRegistry(scope, project) ==
  /\ Idle
  /\ call' = TableCall("list", <<>>, scope, project, None, None)
  /\ ret' = Ret(FALSE, None, list_servers(registry, scope, project), EmptyDict,
                EmptyDict)
  /\ UNCHANGED <<fs, now, denied, pre, codec, registry>>

GetServer(name, scope, project) ==
  /\ Idle
  /\ call' = TableCall("get", <<>>, scope, project, name, None)
  /\ ret' = Ret(FALSE, None, get_server(registry, name, scope, project), EmptyDict,
                EmptyDict)
  /\ UNCHANGED <<fs, now, denied, pre, codec, registry>>

\* gives [ok, val, exc]: the table left and the server returned, or the 404
import_from_global(rows, server_name, project_name, uuid) ==
  LET global_srv == get_server(rows, server_name, "global", None)
  IN  IF global_srv = Nothing THEN Raise("HTTPException")
      ELSE add_server(rows, [global_srv[1] EXCEPT !.id = None], "project",
                      project_name, uuid)

ImportFromGlobal(server_name, project_name, uuid) ==
  LET out == import_from_global(registry, server_name, project_name, uuid)
  IN  /\ Idle
      /\ uuid \notin DOMAIN registry
      /\ call' = TableCall("import", <<>>, "project", project_name, server_name, None)
      /\ ret' = IF out.ok THEN Ret(FALSE, None, <<out.val.server>>, EmptyDict, EmptyDict)
                ELSE Ret(TRUE, out.exc, <<>>, EmptyDict, EmptyDict)
      /\ registry' = IF out.ok THEN out.val.rows ELSE registry
      /\ UNCHANGED <<fs, now, denied, pre, codec>>

\* the caller has taken the outcome
TableFinish ==
  /\ ~Idle
  /\ call' = NoCall
  /\ ret' = NoRet
  /\ UNCHANGED <<fs, now, denied, pre, codec, registry>>

TableNext ==
  \/ TableFinish
  \/ \E name \in TableNames, args \in ScopeArgs, uuid \in Uuids :
       \E server \in Payloads(name) : AddServer(server, args[1], args[2], uuid)
  \/ \E name \in TableNames, args \in ScopeArgs : RemoveServer(name, args[1], args[2])
  \/ \E server_id \in Uuids, new_name \in TableNames : RenameServer(server_id, new_name)
  \/ \E args \in ScopeArgs : ListRegistry(args[1], args[2])
  \/ \E name \in TableNames, args \in ScopeArgs : GetServer(name, args[1], args[2])
  \/ \E name \in TableNames, project_name \in {"", "alpha", "beta"}, uuid \in Uuids :
       ImportFromGlobal(name, project_name, uuid)

TableSpec == TableInit /\ [][TableNext]_vars

\* --------------------------------------------- the provider writer on its own
OpenAiProvider == LlmProvider("openai", "openai", "sk-test", None)
LocalProvider == LlmProvider("local", None, None, "http://x/v1")

LlmProviders == {OpenAiProvider, LocalProvider}

\* the target ids write_provider_to_target sends on to a project writer
LlmProjectTargets ==
  {"opencode_project", "continue_project", "aider_project", "claude_code_project",
   "roo_cline_project", "windsurf_project", "plandex_project", "gemini_cli_project",
   "amp_project"}

\* (target_id, project_path) arguments: every project target without a
\* path, the Cursor target under both its ids, ids no branch handles, and
\* targets whose files get written
LlmCalls ==
  (LlmProjectTargets \X {None, ""})
    \cup ({"cursor", "cursor_global"} \X {None, ProjectDir})
    \cup ({"nonexistent", "cursor_project"} \X {None, ProjectDir})
    \cup { <<"opencode", None>>, <<"opencode_global", ProjectDir>>,
           <<"continue_project", ProjectDir>>, <<"gemini_cli_project", ProjectDir>> }

\* what the OpenCode and Continue files may hold at start
LlmFileSystems ==
  { opencode @@ continue :
      opencode \in { EmptyDict } \cup
        { _OPENCODE_CONFIG_PATH :> c :
            c \in { ArrayFile, InvalidFile,
                    JsonFile("provider" :> JStr("none")),
                    JsonFile("provider" :> JObj("openai" :> JObj(EmptyDict))) } },
      continue \in { EmptyDict,
        LlmPath(ProjectDir, ".continue", "config", ".yaml") :>
          YamlFile("models" :> JList(<< JObj("provider" :> JStr("local")) >>)) } }

LlmDenied == { {}, {Parent(_OPENCODE_CONFIG_PATH)} }

ProviderInit ==
  /\ fs \in LlmFileSystems
  /\ now = 0
  /\ denied \in LlmDenied
  /\ call = NoCall
  /\ ret = NoRet
  /\ pre = fs
  /\ codec = NoCodec
  /\ registry = EmptyDict

\* write_provider_to_target(provider, target_id, project_path)
WriteProvider(provider, target_id, project_path) ==
  /\ Idle
  /\ LET out == write_provider_to_target(fs, denied, provider, target_id, project_path)
     IN  /\ fs' = out.files
         /\ ret' = Ret(FALSE, None,
                       <<[success |-> out.success, message |-> out.message]>>,
                       EmptyDict, EmptyDict)
  /\ call' = Call("write_provider", target_id, <<provider>>, <<>>, <<>>, FALSE,
                  None, project_path, None, None)
  /\ pre' = fs
  /\ UNCHANGED <<now, denied, codec, registry>>

ProviderNext ==
  \/ Finish
  \/ \E provider \in LlmProviders, args \in LlmCalls :
       WriteProvider(provider, args[1], args[2])

ProviderSpec == ProviderInit /\ [][ProviderNext]_vars

\* ------------------------------------------- a write with a second writer
\* write_servers_to_target while another writer stores into the same file
\* between the call's read and its write
WriteRaced(tname, servers, create_backup) ==
  LET target == TargetOf(tname)
      out == raced_write_servers_to_target(fs, denied, now, target, servers,
                                           create_backup, DirFor(target.scope))
  IN  /\ Idle
      /\ call' = Call("write_raced", tname, servers, <<>>, <<>>, create_backup,
                      target.scope, DirFor(target.scope), None, None)
      /\ ret' = One(out)
      /\ fs' = out.files
      /\ pre' = fs
      /\ UNCHANGED <<now, denied, codec, registry>>

RaceNext ==
  \/ Finish
  \/ \E tname \in SeedTargets, servers \in ServerLists, create_backup \in BOOLEAN :
       WriteRaced(tname, servers, create_backup)

RaceSpec == Init /\ [][RaceNext]_vars

\* --------------------------------------- the single-target calls on their own
\* reads, writes, removes and renames of one target, without sync batches
FrameNext ==
  \/ Finish
  \/ \E tname \in SeedTargets : Read(tname)
  \/ \E tname \in SeedTargets, servers \in ServerLists, create_backup \in BOOLEAN :
       Write(tname, servers, create_backup)
  \/ \E tname \in SeedTargets, server_name \in {"demo", "ghost"} :
       Remove(tname, server_name)
  \/ \E tname \in SeedTargets, pair \in RenamePairs : Rename(tname, pair[1], pair[2])

FrameSpec == Init /\ [][FrameNext]_vars

\* ================================================================ properties
\* What the files of a call's scope held when the call started, read the way
\* the specification describes a target file: a mapping under the root key,
\* empty when the file is missing, empty, unparsable or lacks the key.
PathOf(target) == _resolve_path(target, call.project_dir)

Parses(files, path) == Exists(files, path) /\ files[path].kind = "json"

\* a file the engine can read and rewrite: absent, zero-length or a JSON object
Healthy(files, path) == ~Exists(files, path) \/ files[path].kind \in {"empty", "json"}

DocOf(files, path) == IF Parses(files, path) THEN files[path].doc ELSE EmptyDict

MappingOf(files, target) ==
  LET doc == DocOf(files, PathOf(target))
  IN  IF target.root_key \in DOMAIN doc THEN doc[target.root_key][2] ELSE EmptyDict

\* the names of the object entries of a target's mapping
ObjNames(files, target) ==
  {n \in DOMAIN MappingOf(files, target) : IsObj(MappingOf(files, target)[n])}

ScopeTargets == get_targets_by_scope(call.scope)

\* index of the first target, in registry order, whose file holds the name
FirstHolder(files, name) ==
  CHOOSE i \in 1..Len(ScopeTargets) :
    /\ name \in ObjNames(files, ScopeTargets[i])
    /\ \A j \in 1..(i - 1) : name \notin ObjNames(files, ScopeTargets[j])

HeldNames(files) ==
  UNION {ObjNames(files, ScopeTargets[i]) : i \in 1..Len(ScopeTargets)}

SameFields(a, b) ==
  /\ a.command = b.command /\ a.args = b.args /\ a.env = b.env
  /\ a.type = b.type /\ a.url = b.url /\ a.headers = b.headers

SourceSet(server) == {server.sources[i] : i \in 1..Len(server.sources)}

\* C1: discover_all_servers returns exactly one record per distinct server
\* name held by the scope's target files, and the record's command, args,
\* env, type, url and headers are those decoded from the first target in
\* registry order whose file holds the name.
C1_FirstWriterWins ==
  call.op = "discover" =>
    /\ DOMAIN ret.merged = HeldNames(pre)
    /\ \A name \in HeldNames(pre) :
         LET target == ScopeTargets[FirstHolder(pre, name)]
         IN  SameFields(ret.merged[name],
                        _to_canonical(name, MappingOf(pre, target)[name][2], target))

\* C2: after discover_all_servers, a target id is among the sources of the
\* record of a name exactly when that target's file parses and holds the
\* name, and no record lists a source twice.
C2_SourcesExact ==
  call.op = "discover" =>
    /\ \A name \in DOMAIN ret.merged :
         Cardinality(SourceSet(ret.merged[name])) = Len(ret.merged[name].sources)
    /\ \A i \in 1..Len(ScopeTargets), name \in HeldNames(pre) \cup DOMAIN ret.merged :
         (name \in ObjNames(pre, ScopeTargets[i]))
           <=> (/\ name \in DOMAIN ret.merged
                /\ ScopeTargets[i].name \in SourceSet(ret.merged[name]))

\* the sequence without its i-th element
DropAt(seq, i) == SubSeq(seq, 1, i - 1) \o SubSeq(seq, i + 1, Len(seq))

\* C3: in discover_all_servers a target whose file is missing, empty or
\* unparsable contributes nothing and raises nothing, every other target
\* still contributes all of its entries, and the result equals discovery
\* with that target removed from the registry.
C3_BadTargetSkipped ==
  call.op = "discover" =>
    /\ ~ret.raised
    /\ \A i \in 1..Len(ScopeTargets) :
         ~Parses(pre, PathOf(ScopeTargets[i])) =>
           /\ \A name \in DOMAIN ret.merged :
                ScopeTargets[i].name \notin SourceSet(ret.merged[name])
           /\ ret.merged = MergeTargets(pre, DropAt(ScopeTargets, i),
                                        call.project_dir, EmptyDict)
           /\ \A j \in 1..Len(ScopeTargets) :
                \A name \in ObjNames(pre, ScopeTargets[j]) :
                  /\ name \in DOMAIN ret.merged
                  /\ ScopeTargets[j].name \in SourceSet(ret.merged[name])

\* C4: write_servers_to_target, remove_server_from_target and
\* rename_server_in_target never raise to their caller; every call ends by
\* returning one SyncResult, with success=false and a message when a step
\* failed.
C4_NeverRaises ==
  call.op \in {"write", "remove", "rename"} =>
    /\ ~ret.raised
    /\ Len(ret.results) = 1
    /\ ret.results[1].target = call.target
    /\ ~ret.results[1].success => ret.results[1].message # ""

\* the target of a write, remove or rename call
CallTarget == TargetOf(call.target)

\* the call's target file could be read and rewritten when the call started
CanRewrite ==
  /\ Healthy(pre, PathOf(CallTarget))
  /\ Writable(denied, PathOf(CallTarget))

\* every top-level key other than the target's root key is as it was
SiblingsKept ==
  LET before == DocOf(pre, PathOf(CallTarget))
      after == DocOf(fs, PathOf(CallTarget))
  IN  \A key \in ((DOMAIN before) \cup (DOMAIN after)) \ {CallTarget.root_key} :
        key \in DOMAIN before /\ key \in DOMAIN after /\ before[key] = after[key]

\* every entry whose name is outside `names` is as it was
OthersKept(names) ==
  LET before == MappingOf(pre, CallTarget)
      after == MappingOf(fs, CallTarget)
  IN  \A name \in ((DOMAIN before) \cup (DOMAIN after)) \ names :
        name \in DOMAIN before /\ name \in DOMAIN after /\ before[name] = after[name]

\* the last record of the list that carries the name
LastNamed(servers, name) ==
  servers[CHOOSE i \in 1..Len(servers) :
            /\ servers[i].name = name
            /\ \A j \in (i + 1)..Len(servers) : servers[j].name # name]

\* C5: write_servers_to_target on a target whose file can be read and
\* rewritten succeeds, and afterwards every entry whose name is not in
\* records is unchanged, every top-level key other than the root key is
\* unchanged, and each name in records maps to the target-dialect encoding
\* of its record, the last occurrence winning.
C5_WriteFrame ==
  (call.op = "write" /\ CanRewrite) =>
    /\ ~ret.raised
    /\ ret.results[1].success
    /\ SiblingsKept
    /\ OthersKept({call.servers[i].name : i \in 1..Len(call.servers)})
    /\ \A i \in 1..Len(call.servers) :
         LET name == call.servers[i].name
         IN  /\ name \in DOMAIN MappingOf(fs, CallTarget)
             /\ MappingOf(fs, CallTarget)[name] =
                  JObj(_from_canonical(LastNamed(call.servers, name), CallTarget))

\* C6: remove_server_from_target on a name that is not in the target's
\* mapping returns success=true and leaves the file system as it was;
\* on a present name it deletes that entry and nothing else.
C6_RemoveIdempotent ==
  (call.op = "remove" /\ CanRewrite) =>
    /\ ~ret.raised
    /\ ret.results[1].success
    /\ IF call.old_name \in DOMAIN MappingOf(pre, CallTarget)
       THEN /\ call.old_name \notin DOMAIN MappingOf(fs, CallTarget)
            /\ OthersKept({call.old_name})
            /\ SiblingsKept
       ELSE fs = pre

\* C7: rename_server_in_target with old present leaves old absent and new
\* mapped to the raw entry that was stored at old, every other entry and
\* every sibling key unchanged; with old absent it returns success=true
\* and leaves the file system as it was.
C7_RenameMovesKey ==
  (call.op = "rename" /\ CanRewrite) =>
    /\ ~ret.raised
    /\ ret.results[1].success
    /\ IF call.old_name \in DOMAIN MappingOf(pre, CallTarget)
       THEN /\ call.old_name \notin DOMAIN MappingOf(fs, CallTarget)
            /\ call.new_name \in DOMAIN MappingOf(fs, CallTarget)
            /\ MappingOf(fs, CallTarget)[call.new_name] =
                 MappingOf(pre, CallTarget)[call.old_name]
            /\ OthersKept({call.old_name, call.new_name})
            /\ SiblingsKept
       ELSE fs = pre

\* C8: sync_servers returns exactly one SyncResult per requested target
\* name, in request order, and never raises or stops early.
C8_OneResultPerTarget ==
  call.op = "sync" =>
    /\ ~ret.raised
    /\ Len(ret.results) = Len(call.target_names)
    /\ \A i \in 1..Len(call.target_names) :
         ret.results[i].target = call.target_names[i]

Known(tname) == get_target(tname) # Nothing

\* C9: in a sync batch a target id that is not in the registry yields a
\* result with success=false and target equal to the requested id, without
\* a raise and without any file or backup being created for it, and the
\* other targets of the batch are still processed.
C9_UnknownTarget ==
  (call.op = "sync"
     /\ \E i \in 1..Len(call.target_names) : ~Known(call.target_names[i])) =>
    /\ ~ret.raised
    /\ \A i \in 1..Len(call.target_names) :
         /\ i <= Len(ret.results)
         /\ ~Known(call.target_names[i]) =>
              /\ ~ret.results[i].success
              /\ ret.results[i].target = call.target_names[i]
              /\ call.target_names[i] \notin DOMAIN ret.backups
    /\ (\A i \in 1..Len(call.target_names) : ~Known(call.target_names[i])) => fs = pre

\* the target's file maps every record's name to the record's encoding
HoldsAll(files, target, servers) ==
  \A i \in 1..Len(servers) :
    /\ servers[i].name \in DOMAIN MappingOf(files, target)
    /\ MappingOf(files, target)[servers[i].name] =
         JObj(_from_canonical(LastNamed(servers, servers[i].name), target))

\* C10: in a sync batch a failed target neither prevents a later target of
\* the list from being written nor undoes an earlier one: every known
\* target of the list gets its result, and after the batch every target
\* whose result is success=true holds all synced entries.
C10_NoCrossTargetEffect ==
  call.op = "sync" =>
    \A i \in 1..Len(call.target_names) :
      Known(call.target_names[i]) =>
        /\ ~ret.raised
        /\ i <= Len(ret.results)
        /\ ret.results[i].success =>
             HoldsAll(fs, TargetOf(call.target_names[i]),
                      Pick(discover_all_servers(pre, call.scope, call.project_dir),
                           call.server_names))

\* ------------------------------------------------------------------ backups
\* the names a backup of `path` taken within the clock's range can carry:
\* the timestamp suffix, appended to the file's name or put in place of its
\* extension
BackupNames(path) ==
  { [path EXCEPT !.suffix = ext \o ".bak." \o Timestamp(clock)] :
      ext \in {"", path.suffix}, clock \in 0..MaxClock }

\* the target id occurs once in the batch
ListedOnce(i) ==
  \A j \in 1..Len(call.target_names) :
    call.target_names[j] = call.target_names[i] => j = i

\* C11: a write or sync with backup on a target whose file exists leaves a
\* backup file whose contents are the file's contents from before the write
\* (and, for sync, returns its path under the target's id); when the file
\* does not exist no backup file appears and the target is absent from the
\* returned backup paths.
C11_BackupBeforeWrite ==
  /\ (call.op = "write" /\ call.create_backup /\ Writable(denied, PathOf(CallTarget))) =>
       LET path == PathOf(CallTarget)
       IN  IF Exists(pre, path)
           THEN \E b \in BackupNames(path) : Exists(fs, b) /\ fs[b] = pre[path]
           ELSE \A b \in BackupNames(path) : ~Exists(fs, b)
  /\ call.op = "sync" =>
       \A i \in 1..Len(call.target_names) :
         LET tname == call.target_names[i]
             path == PathOf(TargetOf(tname))
         IN  (Known(tname) /\ ListedOnce(i) /\ Writable(denied, path)) =>
               /\ ~ret.raised
               /\ IF Exists(pre, path)
                  THEN /\ tname \in DOMAIN ret.backups
                       /\ Exists(fs, ret.backups[tname])
                       /\ fs[ret.backups[tname]] = pre[path]
                  ELSE /\ tname \notin DOMAIN ret.backups
                       /\ \A b \in BackupNames(path) : ~Exists(fs, b)

\* the original file's full path with ".bak.<timestamp>" appended
Appended(path, clock) ==
  [path EXCEPT !.suffix = path.suffix \o ".bak." \o Timestamp(clock)]

\* C12: a backup taken of a target file is written at the original file's
\* full path, extension included, with ".bak.<YYYYMMDD_HHMMSS>" appended.
C12_BackupKeepsName ==
  call.op = "sync" =>
    \A i \in 1..Len(call.target_names) :
      LET tname == call.target_names[i]
          path == PathOf(TargetOf(tname))
      IN  (Known(tname) /\ Exists(pre, path) /\ Writable(denied, path)
             /\ \A j \in 1..(i - 1) : call.target_names[j] = UnknownTarget) =>
            /\ Exists(fs, Appended(path, now))
            /\ fs[Appended(path, now)] = pre[path]

\* ----------------------------------------------------------- conversions
\* the record drawn, its target and what decoding its encoding gave
Rec == codec.server
Dialect == TargetOf(codec.target).format_type
Back == codec.decoded

\* decoding gave the record's command, args, env and type back
SameProcess ==
  /\ Back.command = Rec.command
  /\ Back.args = Rec.args
  /\ Back.env = Rec.env
  /\ Back.type = Rec.type

\* C13 (as claimed): for the Standard dialect, decoding the encoding of a
\* record returns the same command, args, env and type, for every record
\* with no url and a type among unset, stdio, local, remote, http, sse.
C13_StandardRoundTrip ==
  (codec.step = "decoded" /\ Dialect = FormatType.STANDARD
     /\ ~Truthy(Rec.url) /\ Rec.type \in TransportTypes) =>
    SameProcess

\* C13 (amended): the same, for every record with no url whose type is
\* unset or stdio and whose command is unset or non-empty.
C13_StdioRoundTrip ==
  (codec.step = "decoded" /\ Dialect = FormatType.STANDARD
     /\ ~Truthy(Rec.url) /\ Rec.type \in {None, "stdio"} /\ Rec.command # "") =>
    SameProcess

\* a stdio record with command, args and env has come back whole
C13_Witness ==
  /\ codec.step = "decoded"
  /\ Dialect = FormatType.STANDARD
  /\ Rec.url = None
  /\ Rec.type = "stdio"
  /\ Rec.command = "uvx"
  /\ Rec.args = <<"pkg", "-y">>
  /\ Rec.env # <<>>
  /\ Back.type = "stdio"
  /\ Back.args = <<"pkg", "-y">>

\* the entry is a local array-command entry for the record: type "local",
\* the command list is the record's command followed by its args
LocalArrayEntry ==
  /\ "type" \in DOMAIN codec.entry
  /\ codec.entry["type"] = JStr("local")
  /\ "command" \in DOMAIN codec.entry
  /\ codec.entry["command"][1] = "list"
  /\ LET list == codec.entry["command"][2]
     IN  /\ Len(list) = Len(Rec.args) + 1
         /\ list[1] = Rec.command
         /\ \A i \in 1..Len(Rec.args) : list[i + 1] = Rec.args[i]

\* decoding gave the record's command, args and env back
SameCommandLine ==
  /\ Back.command = Rec.command
  /\ Back.args = Rec.args
  /\ Back.env = Rec.env

\* C14 (as claimed): for the array-command dialect every record with no url
\* encodes to type "local", a command list of its command followed by its
\* args and an environment equal to its env, and decoding that entry
\* returns the same command, args and env.
C14_ArrayRoundTrip ==
  (codec.step = "decoded" /\ Dialect = FormatType.OPENCODE /\ ~Truthy(Rec.url)) =>
    /\ LocalArrayEntry
    /\ Field(codec.entry, "environment", <<>>) = Rec.env
    /\ SameCommandLine

\* C14 (amended): the same for every record with no url and a non-empty
\* command; the environment key is present exactly when env is non-empty.
C14_ArrayRoundTripWithCommand ==
  (codec.step = "decoded" /\ Dialect = FormatType.OPENCODE /\ ~Truthy(Rec.url)
     /\ Truthy(Rec.command)) =>
    /\ LocalArrayEntry
    /\ "environment" \in DOMAIN codec.entry <=> Rec.env # <<>>
    /\ Field(codec.entry, "environment", <<>>) = Rec.env
    /\ SameCommandLine

\* the specification's case: uvx, [pkg], {K: V}
C14_Witness ==
  /\ codec.step = "decoded"
  /\ Dialect = FormatType.OPENCODE
  /\ Rec.url = None
  /\ Rec.command = "uvx"
  /\ Rec.args = <<"pkg">>
  /\ Rec.env = << <<"K", "V">> >>
  /\ codec.entry["command"] = JList(<<"uvx", "pkg">>)
  /\ codec.entry["environment"] = JMap(<< <<"K", "V">> >>)
  /\ Back.command = "uvx"
  /\ Back.args = <<"pkg">>

\* the args of the bridge: mcp-remote, the url, then for the i-th header of
\* the mapping the pair "--header", "K: V"
IsBridgeArgs(args) ==
  /\ Len(args) = 2 + 2 * Len(Rec.headers)
  /\ args[1] = "mcp-remote"
  /\ args[2] = Rec.url
  /\ \A i \in 1..Len(Rec.headers) :
       /\ args[2 * i + 1] = "--header"
       /\ args[2 * i + 2] = Rec.headers[i][1] \o ": " \o Rec.headers[i][2]

\* the entry is exactly the npx mcp-remote bridge of the record's url
IsBridgeEntry ==
  /\ DOMAIN codec.entry = {"command", "args"}
  /\ codec.entry["command"] = JStr("npx")
  /\ codec.entry["args"][1] = "list"
  /\ IsBridgeArgs(codec.entry["args"][2])

\* C15: on a stdio-only target a record with a url encodes to exactly
\* command "npx" and args ["mcp-remote", url] followed by one "--header",
\* "K: V" pair per header in the mapping's order, with no url, type or
\* headers key; decoding that entry gives command "npx", url unset and
\* headers empty.
C15_BridgeOneWay ==
  (Dialect = FormatType.STANDARD /\ Truthy(Rec.url)) =>
    /\ codec.step \in {"encoded", "decoded"} => IsBridgeEntry
    /\ codec.step = "decoded" =>
         /\ Back.command = "npx"
         /\ Back.url = None
         /\ Back.headers = <<>>
         /\ Back.args = codec.entry["args"][2]

\* a record with a url and two headers has been bridged and decoded
C15_Witness ==
  /\ codec.step = "decoded"
  /\ Dialect = FormatType.STANDARD
  /\ Rec.url = "https://x"
  /\ Len(Rec.headers) = 2
  /\ Rec.command = "uvx"
  /\ codec.entry["args"] =
       JList(<<"mcp-remote", "https://x", "--header", "H2: B", "--header", "H1: B">>)
  /\ Back.command = "npx"
  /\ Back.url = None

\* the entry is a remote entry of the given type: the url, the type and at
\* most the headers, nothing of a spawned process
IsRemoteEntry(type) ==
  /\ {"type", "url"} \subseteq DOMAIN codec.entry
  /\ DOMAIN codec.entry \subseteq {"type", "url", "headers"}
  /\ codec.entry["type"] = JStr(type)
  /\ codec.entry["url"] = JStr(Rec.url)

\* C16: a record with a non-empty url is encoded as remote in every dialect,
\* whether or not its command is set: the array-command dialect emits type
\* "remote" with the url and no command list, the typed-remote dialect the
\* url with the record's explicit type or "http", the bridge dialect the npx
\* mcp-remote bridge; the record's own command, args and env are not in the
\* entry.
C16_UrlDecidesTransport ==
  (codec.step \in {"encoded", "decoded"} /\ Truthy(Rec.url)) =>
    /\ Dialect = FormatType.OPENCODE => IsRemoteEntry("remote")
    /\ Dialect = FormatType.VSCODE =>
         IsRemoteEntry(IF Truthy(Rec.type) THEN Rec.type ELSE "http")
    /\ Dialect = FormatType.STANDARD => IsBridgeEntry
    /\ "env" \notin DOMAIN codec.entry
    /\ "environment" \notin DOMAIN codec.entry

\* a record carrying both a url and a full command line has been encoded
\* for the typed-remote dialect, with no explicit type
C16_Witness ==
  /\ codec.step = "encoded"
  /\ Dialect = FormatType.VSCODE
  /\ Rec.url = "https://x"
  /\ Rec.type = None
  /\ Rec.command = "uvx"
  /\ Rec.args = <<"pkg">>
  /\ Rec.env # <<>>
  /\ codec.entry["type"] = JStr("http")
  /\ "command" \notin DOMAIN codec.entry

\* ------------------------------------------------------ reading one target
\* C17: read_target_servers on a target whose file is missing, empty or
\* unparsable returns an empty server mapping and does not raise.
C17_ReadOfNothing ==
  (call.op = "read" /\ ~Parses(pre, PathOf(CallTarget))) =>
    /\ ~ret.raised
    /\ ret.merged = EmptyDict

\* C18: when the target's server mapping holds entries that are not objects,
\* read_target_servers skips exactly those, without error, and returns the
\* decoding of every object entry of the mapping.
C18_NonObjectsSkipped ==
  (call.op = "read"
     /\ \E name \in DOMAIN MappingOf(pre, CallTarget) :
          ~IsObj(MappingOf(pre, CallTarget)[name])) =>
    /\ ~ret.raised
    /\ DOMAIN ret.merged = ObjNames(pre, CallTarget)
    /\ \A name \in ObjNames(pre, CallTarget) :
         ret.merged[name] =
           _to_canonical(name, MappingOf(pre, CallTarget)[name][2], CallTarget)

\* ------------------------------------------------ failures and propagation
\* the file of a write, remove or rename call did not parse when the call
\* started
BadSyntax == Exists(pre, PathOf(CallTarget)) /\ pre[PathOf(CallTarget)].kind = "invalid"

\* C19: write, remove and rename on a target whose file contains invalid
\* syntax return success=false with a message, and the target file is left
\* exactly as it was.
C19_BadSyntaxReported ==
  (call.op \in {"write", "remove", "rename"} /\ BadSyntax) =>
    /\ ~ret.raised
    /\ Len(ret.results) = 1
    /\ ~ret.results[1].success
    /\ ret.results[1].message # ""
    /\ Exists(fs, PathOf(CallTarget))
    /\ fs[PathOf(CallTarget)] = pre[PathOf(CallTarget)]

\* the registry update renamed a server
IsRename ==
  /\ call.op = "update"
  /\ call.old_name # None
  /\ Truthy(call.new_name)
  /\ call.new_name # call.old_name

\* C20: when a registry server is renamed, every target of the scope whose
\* file holds the old name and can be written ends with that entry under the
\* new name, whatever happened on the other targets, and every target whose
\* file does not hold the old name is left as it was.
C20_RenameEveryTarget ==
  IsRename =>
    \A i \in 1..Len(ScopeTargets) :
      LET target == ScopeTargets[i]
          path == PathOf(target)
          before == MappingOf(pre, target)
          after == MappingOf(fs, target)
      IN  IF call.old_name \in DOMAIN before
          THEN Writable(denied, path) =>
                 /\ call.old_name \notin DOMAIN after
                 /\ call.new_name \in DOMAIN after
                 /\ after[call.new_name] = before[call.old_name]
          ELSE /\ Exists(fs, path) <=> Exists(pre, path)
               /\ Exists(pre, path) => fs[path] = pre[path]

\* ------------------------------------------------------- the merged listing
\* the rows of the registry that belong to the listing's scope: the global
\* rows, or the rows of the project whose directory was given
ScopeRows ==
  { id \in DOMAIN registry :
      IF call.scope = Scope.PROJECT
      THEN /\ registry[id].scope = "project"
           /\ registry[id].project \in DOMAIN ProjectPaths
           /\ ProjectPaths[registry[id].project] = call.project_dir
      ELSE registry[id].scope = "global" }

\* how many times the source occurs in the list
Occurrences(sources, source) ==
  Cardinality({ i \in 1..Len(sources) : sources[i] = source })

\* C21: in the merged listing every name appears once; a registry server
\* whose name was not discovered appears with its registry fields, its id
\* and the single source "opensync"; a name present in both keeps the
\* discovered record's fields, has "opensync" among its sources exactly
\* once, and carries the registry id.
C21_MergedListing ==
  (call.op = "list_servers" /\ ~ret.raised) =>
    /\ DOMAIN ret.merged =
         HeldNames(pre) \cup { registry[id].name : id \in ScopeRows }
    /\ \A id \in ScopeRows :
         LET name == registry[id].name
             listed == ret.merged[name]
         IN  IF name \in HeldNames(pre)
             THEN LET target == ScopeTargets[FirstHolder(pre, name)]
                  IN  /\ SameFields(listed,
                                    _to_canonical(name, MappingOf(pre, target)[name][2],
                                                  target))
                      /\ target.name \in SourceSet(listed)
                      /\ Occurrences(listed.sources, SOURCE_TAG) = 1
                      /\ listed.id = id
             ELSE listed = _row_to_server(registry[id])

\* ------------------------------------------------------ the registry table
\* the slot a call with (name, scope, project) addresses
SameSlot(row, name, scope, project) ==
  /\ row.name = name
  /\ row.scope = ActualScope(scope, project)
  /\ row.project = ProjVal(scope, project)

\* at most one row per (name, scope, project), and every row under its id
UniqueRows ==
  /\ \A a \in DOMAIN registry, b \in DOMAIN registry :
       (/\ registry[a].name = registry[b].name
        /\ registry[a].scope = registry[b].scope
        /\ registry[a].project = registry[b].project) => a = b
  /\ \A id \in DOMAIN registry : registry[id].id = id

\* the step is an add_server call on a (name, scope, project) that has a row
AddOnExisting ==
  /\ call'.op = "add"
  /\ \E id \in DOMAIN registry :
       SameSlot(registry[id], call'.old_name, call'.scope, call'.project_dir)

\* that row has the call's fields under its old id, the call returns that
\* id, and the table has the rows it had, the others untouched
UpdatedInPlace ==
  /\ ~ret'.raised
  /\ DOMAIN registry' = DOMAIN registry
  /\ \A id \in DOMAIN registry :
       IF SameSlot(registry[id], call'.old_name, call'.scope, call'.project_dir)
       THEN /\ ret'.results[1].id = id
            /\ SameFields(registry'[id], call'.servers[1])
            /\ SameSlot(registry'[id], call'.old_name, call'.scope, call'.project_dir)
       ELSE registry'[id] = registry[id]

\* C22: after any sequence of add_server, remove_server and rename_server
\* calls the registry holds at most one server per (name, scope, project)
\* and ids are unique across rows; add_server on an existing (name, scope,
\* project) updates that row's fields, keeps its id and does not change the
\* number of rows.
C22_RegistryKeys == [](UniqueRows) /\ [][AddOnExisting => UpdatedInPlace]_vars

\* an add_server call has replaced the fields of a row and kept its id,
\* with a second row in the table
C22_Witness ==
  /\ call.op = "add"
  /\ ~ret.raised
  /\ ret.results[1].id # call.new_name
  /\ ret.results[1].id \in DOMAIN registry
  /\ registry[ret.results[1].id].command = call.servers[1].command
  /\ Cardinality(DOMAIN registry) = 2

\* the row is stored in the scope the call names: the global scope, or the
\* project scope under the call's project
InCallScope(row) ==
  /\ row.scope = call.scope
  /\ call.scope = "project" => row.project = call.project_dir

\* list_servers and get_server return rows of the scope asked for only
ReadsStayInScope ==
  call.op \in {"list", "get"} =>
    \A i \in 1..Len(ret.results) : InCallScope(registry[ret.results[i].id])

\* add_server and remove_server change rows of the scope named only, and
\* rename_server the row of its id only
WritesStayInScope ==
  /\ call'.op \in {"add", "remove_server"} =>
       \A id \in (DOMAIN registry) \cup (DOMAIN registry') :
         (id \in DOMAIN registry /\ id \in DOMAIN registry'
            /\ registry'[id] = registry[id])
         \/ (/\ (IF id \in DOMAIN registry' THEN registry'[id] ELSE registry[id]).scope
                  = call'.scope
             /\ call'.scope = "project" =>
                  (IF id \in DOMAIN registry' THEN registry'[id] ELSE registry[id]).project
                    = call'.project_dir)
  /\ call'.op = "rename_server" =>
       /\ DOMAIN registry' = DOMAIN registry
       /\ \A id \in (DOMAIN registry) \ {call'.old_name} : registry'[id] = registry[id]

\* C23: registry scopes are isolated: global servers are never returned by
\* list_servers or get_server called with scope "project", a project's
\* servers never for the global scope or another project, and same-named
\* servers of different scopes are updated, renamed and removed
\* independently.
C23_ScopesIsolated == [](ReadsStayInScope) /\ [][WritesStayInScope]_vars

\* the step is an import_from_global call that returned a server
Imported == call'.op = "import" /\ ~ret'.raised

\* the copy is a row of the requested project under an id of its own, and
\* the global row it was taken from is as it was
CopiedIntoProject ==
  \A g \in RowsNamed(registry, call'.old_name, "global", "") :
    /\ ret'.results[1].id # g
    /\ ret'.results[1].id \in DOMAIN registry'
    /\ registry'[ret'.results[1].id].scope = "project"
    /\ registry'[ret'.results[1].id].project = call'.project_dir
    /\ SameFields(registry'[ret'.results[1].id], registry[g])
    /\ g \in DOMAIN registry'
    /\ registry'[g] = registry[g]

\* C24: import_from_global stores a copy of the named global server in the
\* requested project's registry whose id differs from the global server's
\* id, and leaves the global server's row unchanged, for every project_name
\* the request accepts.
C24_ImportCopies == [][Imported => CopiedIntoProject]_vars

\* ------------------------------------------------------ the provider writer
\* the ids write_provider_to_target has a writer for
LlmWritable ==
  LET tools == {"opencode", "continue", "aider", "claude_code", "roo_cline",
                "windsurf", "plandex", "gemini_cli", "amp"}
  IN  tools \cup {t \o "_global" : t \in tools} \cup LlmProjectTargets

IsCursor(id) == id \in {"cursor", "cursor_global"}

\* the call is one of the three the writer turns down
TurnedDown ==
  /\ call.op = "write_provider"
  /\ \/ call.target \notin LlmWritable
     \/ call.target \in LlmProjectTargets /\ ~Truthy(call.project_dir)

\* C25: write_provider_to_target returns success=false with an explanatory
\* message, without raising and without writing any file, for an unknown
\* target id, for the read-only Cursor target, and for a project-scoped
\* target called with no project_path.
C25_TurnedDownWrites ==
  TurnedDown =>
    /\ ~ret.raised
    /\ ret.results[1].success = FALSE
    /\ ret.results[1].message \notin {"", None}
    /\ fs = pre

C25_Witness ==
  /\ call.op = "write_provider"
  /\ call.target \in LlmProjectTargets
  /\ call.project_dir = ""
  /\ DOMAIN pre # {}
  /\ ret.results[1].success = FALSE
  /\ fs = pre

\* ------------------------------------------------ a write that loses a race
\* C26: the read-modify-write of one target is not protected against
\* concurrent modification: when another writer changes the target file
\* between the read and the write step of write_servers_to_target, the call
\* still returns success=true and the file holds the document computed from
\* the earlier read, so the other writer's change is lost.
C26_LostUpdate ==
  (call.op = "write_raced" /\ CanRewrite) =>
    /\ ~ret.raised
    /\ ret.results[1].success
    /\ "theirs" \notin DOMAIN MappingOf(fs, CallTarget)
    /\ SiblingsKept
    /\ OthersKept({call.servers[i].name : i \in 1..Len(call.servers)})
    /\ HoldsAll(fs, CallTarget, call.servers)

\* ------------------------------------------------ a rename onto a held name
\* the rename's target held both names when the call started
BothHeld ==
  /\ call.op = "rename" /\ CanRewrite
  /\ call.old_name # call.new_name
  /\ {call.old_name, call.new_name} \subseteq DOMAIN MappingOf(pre, CallTarget)

\* C27: when both old_name and new_name are present in a target,
\* rename_server_in_target replaces the entry at new_name with the entry
\* from old_name and returns success=true, so the previous new_name entry
\* is lost and the mapping has one entry fewer.
C27_RenameOverwrites ==
  BothHeld =>
    /\ ~ret.raised
    /\ ret.results[1].success
    /\ call.old_name \notin DOMAIN MappingOf(fs, CallTarget)
    /\ call.new_name \in DOMAIN MappingOf(fs, CallTarget)
    /\ MappingOf(fs, CallTarget)[call.new_name] =
         MappingOf(pre, CallTarget)[call.old_name]
    /\ Cardinality(DOMAIN MappingOf(fs, CallTarget)) =
         Cardinality(DOMAIN MappingOf(pre, CallTarget)) - 1

\* ------------------------------------------------------------ the API's sync
\* the sync request passed the API's own checks of scope and project path
SyncAccepted ==
  /\ call.op = "do_sync"
  /\ call.scope = Scope.PROJECT => call.project_dir \in Directories

\* the directory the API's sync hands to the engine
SyncDir == IF call.scope = Scope.PROJECT THEN call.project_dir ELSE None

\* the mapping a selected target's file holds
SyncMappingOf(files, target) ==
  LET doc == DocOf(files, _resolve_path(target, SyncDir))
  IN  IF target.root_key \in DOMAIN doc THEN doc[target.root_key][2] ELSE EmptyDict

SomeKnown == \E i \in 1..Len(call.target_names) : Known(call.target_names[i])

\* every selected target the registry knows has a file that could be read
\* and rewritten when the sync started
SyncCanRewrite ==
  \A i \in 1..Len(call.target_names) :
    Known(call.target_names[i]) =>
      LET path == _resolve_path(TargetOf(call.target_names[i]), SyncDir)
      IN  Healthy(pre, path) /\ Writable(denied, path)

\* the requested names that a target file of the scope and the registry
\* both hold
HeldTwice ==
  { call.server_names[k] : k \in 1..Len(call.server_names) }
    \cap HeldNames(pre) \cap { registry[id].name : id \in ScopeRows }

\* C28: in the API sync, when a requested server name exists both in some
\* target file of the scope and in the registry, the record written to
\* every selected target is the discovered one, taken from the first target
\* in registry order that contains the name.
C28_DiscoveredWins ==
  (SyncAccepted /\ SomeKnown /\ SyncCanRewrite /\ HeldTwice # {}) =>
    /\ ~ret.raised
    /\ \A name \in HeldTwice : \A i \in 1..Len(ret.results) :
         Known(call.target_names[i]) =>
           LET target == TargetOf(call.target_names[i])
               holder == ScopeTargets[FirstHolder(pre, name)]
           IN  /\ ret.results[i].success
               /\ name \in DOMAIN SyncMappingOf(fs, target)
               /\ SyncMappingOf(fs, target)[name] =
                    JObj(_from_canonical(
                           _to_canonical(name, MappingOf(pre, holder)[name][2], holder),
                           target))

\* ------------------------------------------------- one target and the others
\* the file a target of the scope resolves to
ScopePath(scope, target) == _resolve_path(target, DirFor(scope))

\* the two Roo Code project targets, one per host editor
RooProjectTargets == {"roocode_vscode_project", "roocode_antigravity_project"}

\* distinct target ids of a scope resolve to distinct paths
DistinctPaths ==
  \A scope \in Scopes :
    LET targets == get_targets_by_scope(scope)
    IN  \A i \in 1..Len(targets) : \A j \in 1..Len(targets) :
          i # j => ScopePath(scope, targets[i]) # ScopePath(scope, targets[j])

\* two targets of a scope resolve to one path exactly when they are the same
\* target or the two Roo Code project targets
DistinctPathsButRoo ==
  \A scope \in Scopes :
    LET targets == get_targets_by_scope(scope)
    IN  \A i \in 1..Len(targets) : \A j \in 1..Len(targets) :
          (ScopePath(scope, targets[i]) = ScopePath(scope, targets[j]))
            <=> (i = j \/ {targets[i].name, targets[j].name} = RooProjectTargets)

\* the call is a write, remove or rename on one known target
OnOneTarget == call.op \in {"write", "remove", "rename"} /\ Known(call.target)

\* the file of target u is as the call found it
FileKept(u) ==
  LET path == ScopePath(call.scope, u)
  IN  /\ Exists(fs, path) <=> Exists(pre, path)
      /\ Exists(pre, path) => fs[path] = pre[path]

\* C29: a write, remove or rename on one target never changes what
\* read_target_servers returns for a different target of the same scope and
\* project directory: distinct target ids of a scope resolve to distinct
\* file paths.
C29_TargetsApart ==
  /\ DistinctPaths
  /\ OnOneTarget =>
       \A i \in 1..Len(ScopeTargets) :
         ScopeTargets[i].name # call.target => FileKept(ScopeTargets[i])

\* C29, amended: distinct target ids of a scope resolve to distinct file
\* paths except roocode_vscode_project and roocode_antigravity_project,
\* which share one file; a write, remove or rename on one target leaves the
\* file of every target that resolves to a different path as it was.
C29_TargetsApartButRoo ==
  /\ DistinctPathsButRoo
  /\ OnOneTarget =>
       \A i \in 1..Len(ScopeTargets) :
         ScopePath(call.scope, ScopeTargets[i]) # ScopePath(call.scope, CallTarget)
           => FileKept(ScopeTargets[i])

C29_Witness ==
  /\ OnOneTarget
  /\ \E i \in 1..Len(ScopeTargets) :
       /\ ScopePath(call.scope, ScopeTargets[i]) # ScopePath(call.scope, CallTarget)
       /\ Exists(pre, ScopePath(call.scope, ScopeTargets[i]))
       /\ Exists(pre, ScopePath(call.scope, CallTarget))

\* -------------------------------------------------- names the sync cannot find
\* the names discovery or the registry can supply to the sync
Findable == HeldNames(pre) \cup { registry[id].name : id \in ScopeRows }

\* the requested names that were found, in request order
FoundNames == SelectSeq(call.server_names, LAMBDA n : n \in Findable)

\* C30: server names requested in a sync that are found in neither discovery
\* nor the registry are skipped silently: every known target still gets a
\* success=true result whose servers_written lists exactly the requested
\* names that were found, and when no requested name is found the target
\* file is still written, being created with an empty server mapping if it
\* did not exist.
C30_UnfoundSkipped ==
  (SyncAccepted /\ SomeKnown /\ SyncCanRewrite /\ FoundNames # call.server_names) =>
    /\ ~ret.raised
    /\ Len(ret.results) = Len(call.target_names)
    /\ \A i \in 1..Len(call.target_names) :
         Known(call.target_names[i]) =>
           LET target == TargetOf(call.target_names[i])
               path == _resolve_path(target, SyncDir)
           IN  /\ ret.results[i].success
               /\ ret.results[i].servers_written = FoundNames
               /\ Parses(fs, path)
               /\ target.root_key \in DOMAIN fs[path].doc
               /\ (FoundNames = <<>> /\ ~Exists(pre, path)) =>
                    fs[path] = JsonFile(target.root_key :> JObj(EmptyDict))
====
